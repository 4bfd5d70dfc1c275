---------------------------- MODULE MCFetchPages ----------------------------
EXTENDS FetchPages

\* A key that only one task has excludes nothing: the same as no key.
MCKeyLists == {<<>>}
=============================================================================
