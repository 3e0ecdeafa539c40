----------------------------- MODULE ItemStore -----------------------------
(***************************************************************************)
(* What bmcp takes a credential store for (the credStore interface of        *)
(* credstore.go): items that are read, written and deleted whole, by several *)
(* processes at once.  A read returns what the item was at some moment of    *)
(* the call, never a part of it and never "absent" of an item that was       *)
(* there; a write or a delete that succeeds has happened within the call;    *)
(* and a call that fails may have happened or not.                           *)
(***************************************************************************)
CONSTANTS Client, Item, Value, Nothing

VARIABLES
  items,    \* what each item holds
  call,     \* what each client has asked: kind, the items it is of, value
  held,     \* what each item has held since the client's call began
  answer,   \* of the client's last call
  shared    \* the items that programs other than bmcp write too

storeVars == <<items, call, held, answer, shared>>

Idle    == [kind |-> "none", of |-> {}, val |-> Nothing]
NotHeld == [i \in Item |-> {}]

StoreInit ==
  /\ items = [i \in Item |-> Nothing]
  /\ call = [c \in Client |-> Idle] /\ held = [c \in Client |-> NotHeld]
  /\ answer = [c \in Client |-> "none"]
  /\ shared \subseteq Item

Begin(c, o) ==
  /\ call[c] = Idle /\ o.of \subseteq Item
  /\ call' = [call EXCEPT ![c] = o]
  /\ held' = [held EXCEPT ![c] = [i \in Item |-> {items[i]}]]
  /\ answer' = [answer EXCEPT ![c] = "none"]
  /\ UNCHANGED <<items, shared>>

Put(i, v) ==
  /\ items' = [items EXCEPT ![i] = v]
  /\ held' = [c \in Client |-> IF call[c] = Idle THEN held[c]
                               ELSE [held[c] EXCEPT ![i] = @ \cup {v}]]
  /\ UNCHANGED <<call, answer, shared>>

TakesEffect(c) ==
  \E i \in call[c].of :
    \/ call[c].kind = "write" /\ Put(i, call[c].val)
    \/ call[c].kind \in {"delete", "clear"} /\ Put(i, Nothing)
Outside == \E i \in shared, v \in Value \cup {Nothing} : Put(i, v)

Held(c, i) == held[c][i]
Allowed(c) ==
  {"error"} \cup
  CASE call[c].kind = "read"  -> UNION {Held(c, i) : i \in call[c].of}
    [] call[c].kind = "write" ->
         {"ok" : i \in {j \in call[c].of : call[c].val \in Held(c, j)}}
    [] OTHER -> IF \A i \in call[c].of : Nothing \in Held(c, i) THEN {"ok"} ELSE {}

Return(c) ==
  /\ call[c] # Idle
  /\ \E a \in Allowed(c) : answer' = [answer EXCEPT ![c] = a]
  /\ call' = [call EXCEPT ![c] = Idle] /\ held' = [held EXCEPT ![c] = NotHeld]
  /\ UNCHANGED <<items, shared>>

StoreNext ==
  \/ Outside
  \/ \E c \in Client :
       \/ TakesEffect(c) \/ Return(c)
       \/ \E k \in {"read", "write", "delete", "clear"}, of \in SUBSET Item,
             v \in Value \cup {Nothing} :
            Begin(c, [kind |-> k, of |-> of, val |-> v])
StoreSpec == StoreInit /\ [][StoreNext]_storeVars
=============================================================================
