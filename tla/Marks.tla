-------------------------------- MODULE Marks --------------------------------
(***************************************************************************)
(* What the server remembers of one account of one service, as its README  *)
(* promises it: a high-water mark of the two timestamps and the client     *)
(* state that came with it, and what may become of a mark.                 *)
(***************************************************************************)
EXTENDS Integers

CONSTANTS ClientStates, NoState, MAX_GENERATION    \* as in UserRecords

(* No user is known by that email. *)
NoMark ==
    [generation |-> -1, keys_changed_at |-> -1, client_state |-> NoState]

(* The account was deleted. *)
Tombstone ==
    [generation |-> MAX_GENERATION, keys_changed_at |-> 0,
     client_state |-> NoState]

(* The marks of an account in use. *)
InUse == [generation : 0 .. MAX_GENERATION - 1,
          keys_changed_at : 0 .. MAX_GENERATION,
          client_state : ClientStates \cup {NoState}]

-----------------------------------------------------------------------------
(* What may become of mark m. *)

(* The user's first token request. *)
Created(m, n) == m = NoMark /\ n \in InUse

NotBehind(m, n) ==
    /\ n.generation >= m.generation
    /\ n.keys_changed_at >= m.keys_changed_at

(* The user's timestamps move: a request, or an event. *)
Advanced(m, n) ==
    /\ m \in InUse
    /\ n \in InUse
    /\ NotBehind(m, n)
    /\ n.client_state = m.client_state

(* A request with a new client state. *)
Replaced(m, n) ==
    /\ m \in InUse
    /\ n \in InUse
    /\ NotBehind(m, n)
    /\ \/ n.generation > m.generation
       \/ n.keys_changed_at > m.keys_changed_at
    /\ n.client_state # NoState

(* The account is deleted. *)
Retired(m, n) == m # NoMark /\ n = Tombstone

Moved(m, n) ==
    /\ m # n
    /\ Created(m, n) \/ Advanced(m, n) \/ Replaced(m, n) \/ Retired(m, n)

=============================================================================
