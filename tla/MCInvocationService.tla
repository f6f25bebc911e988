------------------------ MODULE MCInvocationService ------------------------
(* Instances of InvocationService for TLC. *)
EXTENDS InvocationService

\* Every two features together.
Combinations == {{"input", "git"}, {"input", "agent"}, {"git", "agent"}}

\* Without the selected key, with it last, and with it first and another twice.
UpstreamKeys == {<<>>, <<"other", Selected>>, <<Selected, "other", "other">>}

\* More chunks than the pipe holds.
Chunks == <<"v1", "v2", "v3">>
=============================================================================
