--------------------------- MODULE PairingPromise ---------------------------
(***************************************************************************)
(* What a client and its device promise each other about one pairing,      *)
(* without processes, locks, messages and files: the client has at most    *)
(* one pairing, adopts one only when it has none, activates it only after  *)
(* the device, and changes keys by a handover.  It moves to a successor of *)
(* the key that both have, keeps the handover open until the device has    *)
(* followed, and starts no second one before that.                         *)
(***************************************************************************)
CONSTANTS
  Clients,  \* identities of the client, one for each pairing attempt
  Keys,     \* pre-shared keys
  None      \* no identity, no key

VARIABLES
  status,  \* the client's pairing: absent, pending or active
  client,  \* its identity
  key,     \* its key
  prior,   \* the key that key was derived from
  open,    \* whether the handover from prior to key is not known to be over
  peer     \* for each identity, whether the device has activated it, and its key

vars == <<status, client, key, prior, open, peer>>
pairing == <<status, client, key, prior, open>>

Peers == [st : {"never", "gone"}, key : {None}] \cup [st : {"active"}, key : Keys]

Init ==
  /\ status = "absent" /\ client = None /\ key = None /\ prior = None /\ open = FALSE
  /\ peer = [c \in Clients |-> [st |-> "never", key |-> None]]

\* A new pairing takes the place of none, under an identity new to the device.
Adopt ==
  /\ status = "absent" /\ status' = "pending"
  /\ client' \in Clients /\ peer[client'].st = "never"
  /\ key' \in Keys /\ prior' = None /\ open' = FALSE
  /\ UNCHANGED peer

\* The client activates its pairing after the device.
Activate ==
  /\ status = "pending" /\ status' = "active"
  /\ peer[client].st # "never"
  /\ UNCHANGED <<client, key, prior, open, peer>>

Forget ==
  /\ status # "absent" /\ status' = "absent"
  /\ client' = None /\ key' = None /\ prior' = None /\ open' = FALSE
  /\ UNCHANGED peer

\* The client moves on to a successor of its key once the last handover is over.
Succeed ==
  /\ status = "active" /\ ~open
  /\ key' \in Keys \ {key} /\ prior' = key /\ open' = TRUE
  /\ UNCHANGED <<status, client, peer>>

\* The client knows that the device has followed, or has dropped the pairing.
Settle ==
  /\ status = "active" /\ open
  /\ peer[client].st = "active" => peer[client].key = key
  /\ open' = FALSE
  /\ UNCHANGED <<status, client, key, prior, peer>>

\* Identity c is the one of the client's pairing.
Current(c) == status # "absent" /\ c = client

\* The device activates an attempt with the key that both computed.
PeerActivates(c) ==
  /\ peer[c].st = "never"
  /\ \E k \in Keys :
       /\ peer' = [peer EXCEPT ![c] = [st |-> "active", key |-> k]]
       /\ Current(c) => status = "pending" /\ k = key
  /\ UNCHANGED pairing

\* The device follows a handover.  What it does with a pairing that the client
\* has forgotten is its own business.
PeerFollows(c) ==
  /\ peer[c].st = "active"
  /\ \E k \in Keys :
       /\ peer' = [peer EXCEPT ![c].key = k]
       /\ Current(c) => open /\ peer[c].key = prior /\ k = key
  /\ UNCHANGED pairing

\* The device removes a pairing.
PeerLeaves(c) ==
  /\ peer[c].st = "active"
  /\ peer' = [peer EXCEPT ![c] = [st |-> "gone", key |-> None]]
  /\ UNCHANGED pairing

Next ==
  \/ Adopt \/ Activate \/ Forget \/ Succeed \/ Settle
  \/ \E c \in Clients : PeerActivates(c) \/ PeerFollows(c) \/ PeerLeaves(c)

Spec == Init /\ [][Next]_vars

-----------------------------------------------------------------------------

\* Client and device can always talk about an active pairing: they have the
\* same key, or the device has the prior one of a handover that is still open
\* (docs/cryptosystem.md section 9).
InStep ==
  (status = "active" /\ peer[client].st = "active") =>
    \/ peer[client].key = key
    \/ open /\ peer[client].key = prior
=============================================================================
