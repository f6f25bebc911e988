---------------------------- MODULE ProxyTunnel ----------------------------
(***************************************************************************)
(* Which proxy a connection uses and the tunnel that it opens through it   *)
(* (proxy.rs).  A setting is unset, empty, notutf8, invalid (no URL),      *)
(* socks (an unsupported scheme) or proxy; no_proxy is one of the first    *)
(* three, matches or other.  The answer of the proxy is a sequence of      *)
(* bytes that arrive in pieces of any size; those that matter are the      *)
(* status line and the blank line that ends the header.                    *)
(***************************************************************************)
EXTENDS Integers, SequencesExt

CONSTANT
  MaxResponse \* MAXIMUM_CONNECT_RESPONSE_SIZE, in bytes of the model

ASSUME MaxResponseAssumption == MaxResponse \in Nat

VARIABLES
  tunnel,   \* none, reading, direct, open or the error; broken if the connection fails
  wire,     \* what the proxy has sent and the client has not read
  received  \* what the client has read

tunnelVars == <<tunnel, wire, received>>

TunnelInit == tunnel = "none" /\ received = <<>>

\* first_setting: the first that is set and not empty.
First(settings) ==
  LET set == {i \in DOMAIN settings : settings[i] \notin {"unset", "empty"}}
  IN IF set = {} THEN "unset" ELSE settings[CHOOSE i \in set : \A j \in set : i <= j]

\* Config::from_env, with the four settings for the scheme of the relay in
\* their order and the two of no_proxy.
Configured(settings, exceptions) ==
  CASE First(settings) = "unset" -> "direct"
    [] First(settings) \in {"notutf8", "invalid", "socks"} -> "misconfigured"
    [] OTHER -> CASE First(exceptions) = "notutf8" -> "misconfigured"
                  [] First(exceptions) = "matches" -> "direct"
                  [] OTHER -> "reading"

Configure(settings, exceptions) ==
  /\ tunnel = "none" /\ tunnel' = Configured(settings, exceptions)
  /\ UNCHANGED <<wire, received>>

-----------------------------------------------------------------------------
(* establish_tunnel.  The bytes are "ok", "rejected", "junk" (a status     *)
(* line without its end), "h" (other bytes of the header), "r" and "n".    *)

Bytes == {"ok", "rejected", "junk", "h", "r", "n"}
Blank == <<"r", "n", "r", "n">>
Ended(bytes) == \E i \in 1..(Len(bytes) - 3) : SubSeq(bytes, i, i + 3) = Blank

\* Mutant: the end must arrive in one piece.
MutPiece(piece) == Ended(piece)

\* The end of the header is looked for in everything that was read.
HeaderEnds(piece) == Ended(received \o piece)

Status(bytes) ==
  CASE bytes[1] = "ok" -> "open"
    [] bytes[1] = "rejected" -> "rejected"
    [] OTHER -> "invalid"

Read ==
  /\ tunnel = "reading" /\ Len(received) < MaxResponse
  /\ \E k \in 1..Len(wire) :
       /\ Len(received) + k <= MaxResponse
       /\ received' = received \o SubSeq(wire, 1, k)
       /\ wire' = SubSeq(wire, k + 1, Len(wire))
       /\ tunnel' = IF HeaderEnds(SubSeq(wire, 1, k)) THEN Status(received') ELSE "reading"

ReadEnd ==
  /\ tunnel = "reading" /\ Len(received) < MaxResponse /\ wire = <<>>
  /\ tunnel' = "eof" /\ UNCHANGED <<wire, received>>

TooLarge ==
  /\ tunnel = "reading" /\ Len(received) = MaxResponse
  /\ tunnel' = "large" /\ UNCHANGED <<wire, received>>

\* Connecting to the proxy, writing the request or reading from it fails.
Breaks ==
  /\ tunnel = "reading" /\ Len(received) < MaxResponse
  /\ tunnel' = "broken" /\ UNCHANGED <<wire, received>>

Tunnel == Read \/ ReadEnd \/ TooLarge \/ Breaks

-----------------------------------------------------------------------------

\* What a tunnel comes to depends on the answer of the proxy and not on how
\* it was cut into pieces: unless the connection fails, it is open if and
\* only if a complete header that fits says so (proxy.rs establish_tunnel).
IgnoresPieces ==
  tunnel \in {"open", "rejected", "invalid", "eof", "large"} =>
    LET sent == received \o wire
        header == SubSeq(sent, 1, IF Len(sent) < MaxResponse THEN Len(sent) ELSE MaxResponse)
    IN tunnel = IF Ended(header) THEN Status(sent)
                ELSE IF Len(sent) >= MaxResponse THEN "large" ELSE "eof"
=============================================================================
