------------------------------- MODULE CacheMap -------------------------------
(***************************************************************************)
(* What the users of cache/cache_store.c may count on: a map that forgets  *)
(* whenever it likes, but what it answers is what was put last.            *)
(***************************************************************************)
CONSTANTS Key, Value,
          Nothing  \* none of the values

VARIABLES
    kept,     \* per key, the value it would answer with, or Nothing
    answered  \* the last answer: a key and a value, or Nothing for a miss

Init == kept = [k \in Key |-> Nothing] /\ answered = Nothing

\* The keys of K keep their values or lose them.
Lose(K) == kept' \in [Key -> Value \cup {Nothing}] /\ \A k \in K : kept'[k] \in {kept[k], Nothing}

\* A put may make it forget other keys, and the key's own old value some time before.
Put(k, v) == Lose(Key \ {k}) /\ kept'[k] = v /\ UNCHANGED answered
Forget    == Lose(Key) /\ UNCHANGED answered
Get(k)    == Lose({k}) /\ answered' = <<k, kept'[k]>> /\ (\A j \in Key \ {k} : kept'[j] = kept[j])

Next == \/ \E k \in Key, v \in Value : Put(k, v)
        \/ Forget
        \/ \E k \in Key : Get(k)

Spec == Init /\ [][Next]_<<kept, answered>>
=============================================================================
