----------------------------- MODULE MCFilesys -----------------------------
EXTENDS Filesys

TwoNames == {"a", "b"}

\* Files and directories of the root and one level down, ways up again, the root.
MCPaths ==
  {<<>>, <<"a">>, <<"b">>, <<"a", "b">>, <<"..">>, <<"a", "..">>, <<"a", "..", "b">>,
   <<"a", ".">>, <<".", "a">>, <<"a", "b", "..", "b">>}

\* One name, for threads that race for it.
OnePath == {<<"a">>}
=============================================================================
