--------------------------- MODULE MCActionContext ---------------------------
EXTENDS ActionContext

MCDisabledKey == {"key"}
=============================================================================
