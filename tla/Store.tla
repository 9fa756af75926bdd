------------------------------- MODULE Store -------------------------------
(***************************************************************************)
(* What the callers of the file-system storage are promised, whatever it   *)
(* keeps on disk.  A write takes effect when it is answered.  A write that *)
(* no other call touched settles its key: nothing that was there before    *)
(* can come back.  Writes that overlapped, or that a crash cut off, stay   *)
(* afloat, and a rebuild of the index may choose any value afloat.         *)
(***************************************************************************)
CONSTANTS
    Key,        \* documents, each a collection and an id
    Value,      \* contents of a document
    None,       \* no document
    Caller      \* callers, of whatever process

VARIABLES
    rows,       \* what a reader sees of each key
    op,         \* each caller: "none", "write" or "rebuild"
    key, value, \* what a writing caller writes: None deletes
    alone,      \* callers whose write no other call has touched
    afloat      \* the contents of each key that a rebuild may bring back

storeVars == <<rows, op, key, value, alone, afloat>>

Content == Value \cup {None}
Touches(c, k) == op[c] = "rebuild" \/ (op[c] = "write" /\ key[c] = k)

StoreInit ==
    /\ rows = [k \in Key |-> None]
    /\ op = [c \in Caller |-> "none"]
    /\ key = [c \in Caller |-> None]
    /\ value = [c \in Caller |-> None]
    /\ alone = {}
    /\ afloat = [k \in Key |-> {None}]

Write(c, k, v) ==
    /\ op[c] = "none"
    /\ op' = [op EXCEPT ![c] = "write"]
    /\ key' = [key EXCEPT ![c] = k]
    /\ value' = [value EXCEPT ![c] = v]
    /\ alone' = {d \in alone : ~Touches(d, k)} \cup {d \in {c} : \A e \in Caller : ~Touches(e, k)}
    /\ afloat' = [afloat EXCEPT ![k] = @ \cup {v}]
    /\ UNCHANGED rows

\* The caller has no call any more.
Leave(c) ==
    /\ op' = [op EXCEPT ![c] = "none"]
    /\ key' = [key EXCEPT ![c] = None]
    /\ value' = [value EXCEPT ![c] = None]
    /\ alone' = alone \ {c}

Answer(c) ==
    /\ op[c] = "write"
    /\ Leave(c)
    /\ rows' = [rows EXCEPT ![key[c]] = value[c]]
    /\ afloat' = [afloat EXCEPT ![key[c]] = IF c \in alone THEN {value[c]} ELSE @]

Abandon(c) ==
    /\ op[c] # "none"
    /\ Leave(c)
    /\ UNCHANGED <<rows, afloat>>

Rebuild(c) ==
    /\ op[c] = "none"
    /\ op' = [op EXCEPT ![c] = "rebuild"]
    /\ alone' = {}
    /\ UNCHANGED <<rows, key, value, afloat>>

Rebuilt(c) ==
    /\ op[c] = "rebuild"
    /\ Leave(c)
    /\ rows' \in [Key -> Content]
    /\ \A k \in Key : rows'[k] \in afloat[k]
    /\ UNCHANGED afloat

StoreNext == \E c \in Caller :
    \/ \E k \in Key, v \in Content : Write(c, k, v)
    \/ Answer(c) \/ Abandon(c) \/ Rebuild(c) \/ Rebuilt(c)

StoreSpec == StoreInit /\ [][StoreNext]_storeVars
=============================================================================
