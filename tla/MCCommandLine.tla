--------------------------- MODULE MCCommandLine ---------------------------
(***************************************************************************)
(* An instance of CommandLine for TLC.  Each group of inputs varies one    *)
(* part of an invocation and keeps the others plain.                       *)
(***************************************************************************)
EXTENDS CommandLine

MCWellFormed == {"A", "B", "C", "a.b", "SSH_AUTH_SOCK", "GIT_CONFIG_COUNT", "GIT_CONFIG_0"}
MCPortable == MCWellFormed \ {"a.b"}
MCPlain == {"x", "y", "0", "1", "2", "agent", "old agent", "setting"}

FileAt(i) == [kind |-> "file", to |-> i]
LinkTo(p) == [kind |-> "link", to |-> p]
Bad(kind) == [kind |-> kind, to |-> None]
Binary(t) == [head |-> "binary", tail |-> t]
Script(t) == [head |-> "script", tail |-> t]
AFile(c, r, e, o) == [content |-> c, regular |-> r, exec |-> e, read |-> o]
Program == AFile(Binary(1), TRUE, TRUE, TRUE)

Env(values) == [type |-> "env", vars |-> values]
Key(given) == [type |-> "ssh", key |-> given]

\* A command line that runs a binary with secret s.
PlainInput ==
  [command |-> "run", cwd |-> "good",
   homes |-> [option |-> "absolute", variable |-> "unset", user |-> "unset"], secrets |-> <<"s">>, flags |-> <<>>,
   keep |-> [agent |-> TRUE, git |-> TRUE], inherited |-> <<>>, answers |-> {"s" :> Env("A" :> "x")},
   search |-> <<"bin">>, entry |-> [p \in Paths |-> FileAt("i1")],
   file |-> [i \in Inodes |-> Program], disturbed |-> FALSE,
   proxies |-> <<"unset", "unset", "unset", "unset">>, exceptions |-> <<"unset", "unset">>,
   wire |-> <<>>, key |-> None, passphrase |-> "none", sources |-> <<>>]

-----------------------------------------------------------------------------
(* Options and answers: up to two flags for one secret, one for another    *)

Flag(kind, s, n) == [kind |-> kind, secret |-> s, name |-> n, to |-> None]
Rename(s, n, m) == [kind |-> "rename", secret |-> s, name |-> n, to |-> m]

FlagsOfS ==
  {Flag(k, "s", n) : k \in {"only", "omit", "stdin"}, n \in {"A", "B"}}
    \cup {Rename("s", n, m) : n \in {"A", "B"}, m \in {"B", "C"}} \cup {Flag("omit", "s", "a.b")}
FlagsOfT == {<<>>, <<Flag("stdin", "t", "A")>>, <<Rename("t", "A", "B")>>, <<Flag("only", "t", "B")>>}
FlagLists ==
  {f \o g : f \in {<<>>} \cup {<<f>> : f \in FlagsOfS} \cup {<<f, g>> : f \in FlagsOfS, g \in FlagsOfS},
            g \in FlagsOfT}
    \cup {<<Flag("only", "s", "A"), Flag("only", "s", "B")>> \o <<f>> : f \in FlagsOfS}

Returned(values) == {Env(v) : v \in UNION {[N -> values] : N \in SUBSET {"A", "B"}}}
TwoAnswers ==
  {("s" :> a @@ "t" :> b) : a \in Returned({"x", "y"}) \cup {Key(TRUE), Key(FALSE)},
                            b \in Returned({"x"}) \cup {Key(TRUE)}}
    \cup {"s" :> Env("A" :> "x")}

OptionInputs ==
  {[PlainInput EXCEPT !.secrets = s, !.flags = f, !.answers = TwoAnswers] :
     s \in {<<"s", "t">>}, f \in FlagLists}
    \cup {[PlainInput EXCEPT !.secrets = s, !.flags = <<Flag("omit", "t", "A")>>] :
            s \in {<<"s">>, <<"t", "t">>}}

-----------------------------------------------------------------------------
(* Environments: inherited and approved settings, with and without SSH     *)

Settings(counts, value) ==
  {[n \in DOMAIN c \cup N |-> IF n \in DOMAIN c THEN c[n] ELSE value] :
     c \in {<<>>} \cup {"GIT_CONFIG_COUNT" :> k : k \in counts},
     N \in SUBSET {"GIT_CONFIG_0", "SSH_AUTH_SOCK"}}

EnvironmentInputs ==
  {[PlainInput EXCEPT
      !.secrets = <<"s", "t">>, !.keep = k, !.inherited = e,
      !.answers = {("s" :> Env(v) @@ "t" :> t) :
                     v \in Settings({"0", "1", "2", "x"}, "setting")
                             \cup {"A" :> "nul", "no=name" :> "x", "a.b" :> "x"},
                     t \in {Key(TRUE), Env(<<>>)}}] :
     k \in [agent : BOOLEAN, git : BOOLEAN], e \in Settings({"0", "1", "2", "x"}, "old agent")}

-----------------------------------------------------------------------------
(* Searches of three directories that nobody disturbs                      *)

Searched == {FileAt("i1"), FileAt("i2"), LinkTo("link"), Bad("missing"), Bad("denied"), Bad("broken")}
SearchInputs ==
  {[PlainInput EXCEPT
      !.search = <<"bin", "usr", "opt">>,
      !.entry = [p \in Paths |-> CASE p = "bin" -> a [] p = "usr" -> b [] p = "opt" -> c
                                   [] OTHER -> Bad("missing")],
      !.file = [i \in Inodes |-> IF i = "i1" THEN Program ELSE f]] :
     a \in Searched, b \in Searched, c \in Searched,
     f \in {AFile(Script(1), TRUE, TRUE, TRUE), AFile(Binary(1), FALSE, TRUE, TRUE),
            AFile(Binary(1), TRUE, FALSE, TRUE)}}

(* Executables that others change                                          *)

RaceInputs ==
  {[PlainInput EXCEPT
      !.entry = [p \in Paths |-> IF p = "bin" THEN e ELSE FileAt("i1")],
      !.file = [i \in Inodes |-> IF i = "i1" THEN AFile(c, TRUE, TRUE, r)
                                 ELSE AFile(Script(2), TRUE, TRUE, TRUE)],
      !.disturbed = TRUE] :
     e \in {FileAt("i1"), LinkTo("link")}, c \in {Binary(1), Script(1)}, r \in BOOLEAN}

-----------------------------------------------------------------------------
(* Uploads                                                                 *)

Source(k, path, names, bad) == [kind |-> k, path |-> path, gives |-> names, bad |-> bad]
Sources ==
  {Source("environment", "env", <<"A">>, FALSE), Source("environment", "env", <<"B">>, TRUE),
   Source("file", "-", <<"A">>, FALSE), Source("file", "f", <<"B">>, FALSE),
   Source("dotenv", "-", <<"A", "B">>, FALSE), Source("dotenv", "f", <<"C", "C">>, FALSE),
   Source("dotenv", "f", <<>>, FALSE), Source("dotenv", "f", <<"C">>, FALSE),
   Source("prompt", "tty", <<"A">>, FALSE), Source("prompt", "tty", <<"C">>, FALSE),
   Source("prompt", "tty", <<"B">>, TRUE)}

PlainUpload == [PlainInput EXCEPT !.command = "upload", !.sources = <<Source("file", "f", <<"A">>, FALSE)>>]
UploadInputs ==
  {[PlainUpload EXCEPT !.sources = s] : s \in UNION {[1..n -> Sources] : n \in 0..3}}
    \cup {[PlainUpload EXCEPT !.key = k, !.passphrase = p] :
            k \in [format : {"openssh", "legacy", "garbage"}, encrypted : BOOLEAN, right : BOOLEAN],
            p \in {"none", "variable", "prompt"}}

-----------------------------------------------------------------------------
(* Proxies                                                                 *)

ProxySettings == {"unset", "empty", "notutf8", "invalid", "socks", "proxy"}
Blanked(line) == <<line, "r", "n", "r", "n">>
Wires ==
  UNION {{Blanked(l), <<l, "r", "n", "h">> \o Blank, <<l, "r", "n", "h", "r">> \o Blank, <<l, "r", "n">>,
          <<l, "r", "n", "h", "r", "n", "h", "h">>} : l \in {"ok", "rejected", "junk"}}
ProxyInputs ==
  {[PlainUpload EXCEPT !.proxies = <<a, b, c, "proxy">>, !.exceptions = <<n, m>>] :
     a \in ProxySettings, b \in ProxySettings, c \in {"unset", "empty", "proxy"},
     n \in {"unset", "empty", "matches"}, m \in {"other", "matches", "notutf8"}}
  \cup {[PlainUpload EXCEPT !.proxies = <<"empty", "proxy", "unset", "unset">>, !.wire = w] : w \in Wires}

-----------------------------------------------------------------------------
(* Home and working directories, for every command                         *)

Commands == {"run", "upload", "status", "abort", "force", "start", "finish", "remove", "list"}
HomeInputs ==
  {[PlainUpload EXCEPT !.command = c, !.cwd = d, !.homes = h] :
     c \in Commands, d \in {"good", "gone", "notutf8"},
     h \in [option : {"unset", "relative", "absolute"},
            variable : {"unset", "empty", "relative", "absolute", "notutf8"},
            user : {"unset", "empty", "relative", "absolute", "notutf8"}]}

MCInputs ==
  HomeInputs \cup OptionInputs \cup EnvironmentInputs \cup SearchInputs \cup RaceInputs
    \cup UploadInputs \cup ProxyInputs
=============================================================================
