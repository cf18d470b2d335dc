------------------------------ MODULE Allocator -----------------------------
(***************************************************************************)
(* What an allocator promises the program that uses it.  Payloads are lent *)
(* to ids.  One stays where it is, and its words stay what they are, until *)
(* its own id gives it back or asks for another size, whatever else is     *)
(* allocated and freed in the meantime; and then the words are kept, as    *)
(* many as fit.                                                            *)
(***************************************************************************)
EXTENDS Integers

CONSTANTS Ids, Memory    \* who borrows, and the addresses there are

VARIABLES payload,       \* id -> the address it was given and the words there
          client         \* "serving"; "refused" after a request that failed,
                         \* "dead" after one it did not survive

vars == <<payload, client>>

Nothing == [lo |-> 0, words |-> [k \in {} |-> 0]]

Nobody == [id \in Ids |-> Nothing]

Init == payload = Nobody /\ client = "serving"

Lent(p) == {p.lo + k : k \in DOMAIN p.words}

(* An id gets an aligned payload that no other is lent any word of.        *)
Lend(id) ==
  /\ payload'[id] # Nothing
  /\ payload'[id].lo % 2 = 0
  /\ Lent(payload'[id]) \subseteq Memory
  /\ \A k \in Ids \ {id} : /\ payload'[k] = payload[k]
                           /\ Lent(payload[k]) \cap Lent(payload'[id]) = {}
  /\ UNCHANGED client

Allocate(id) == payload[id] = Nothing /\ Lend(id)

Resize(id) ==
  /\ payload[id] # Nothing /\ Lend(id)
  /\ \A k \in DOMAIN payload[id].words \cap DOMAIN payload'[id].words :
       payload'[id].words[k] = payload[id].words[k]

Release(id) == /\ payload[id] # Nothing
               /\ payload' = [payload EXCEPT ![id] = Nothing]
               /\ UNCHANGED client

Refuse == client' = "refused" /\ UNCHANGED payload

Die == client' = "dead" /\ payload' = Nobody

(* The next client starts with nothing, on the same memory.                *)
Restart == client' = "serving" /\ payload' = Nobody

Next == \/ /\ client = "serving"
           /\ (\E id \in Ids : Allocate(id) \/ Resize(id) \/ Release(id))
                \/ Refuse \/ Die
        \/ client # "dead" /\ Restart

Spec == Init /\ [][Next]_vars
============================================================================
