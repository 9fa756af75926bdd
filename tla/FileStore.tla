----------------------------- MODULE FileStore -----------------------------
(***************************************************************************)
(* The file-system storage of packages/core/src/storage/fs-adapter.ts: one *)
(* JSON file per document and an SQLite index of all documents.  A reader  *)
(* sees the index only.  put writes the file, which takes several awaits,  *)
(* and then the index, in one step; delete removes the file and then the   *)
(* row.  The index can be rebuilt from the files, one await per file.  The *)
(* Studio, the Site and the operations CLI are callers like any other: the *)
(* adapter takes no locks.                                                 *)
(***************************************************************************)
CONSTANTS Key, Value, None, Caller,
          Torn      \* a file that is not JSON: truncated, cut off or mixed

ASSUME ContentAssumption == None \notin Value /\ Torn \notin Value \cup {None}

VARIABLES
    file,           \* the canonical files
    index,          \* the rows of the index
    pc,             \* each caller: where its call is
    key, value,     \* what it writes
    todo, read,     \* a rebuild: files still to read, and what the others hold
    alone, afloat   \* history: see Store

callVars == <<key, value, todo, read>>
fileVars == <<file, index, pc, callVars, alone, afloat>>

KindOf(at) == IF at = "idle" THEN "none" ELSE IF at = "reading" THEN "rebuild" ELSE "write"
Kind == [c \in Caller |-> KindOf(pc[c])]

\* What the storage promises, with the index for the rows.
Promise == INSTANCE Store WITH rows <- index, op <- Kind

Content == Value \cup {None}

FileInit ==
    /\ file = [k \in Key |-> None]
    /\ index = [k \in Key |-> None]
    /\ pc = [c \in Caller |-> "idle"]
    /\ key = [c \in Caller |-> None]
    /\ value = [c \in Caller |-> None]
    /\ todo = [c \in Caller |-> {}]
    /\ read = [c \in Caller |-> [k \in Key |-> None]]
    /\ alone = {}
    /\ afloat = [k \in Key |-> {None}]

\* The call of c is over.
Leave(c) ==
    /\ pc' = [pc EXCEPT ![c] = "idle"]
    /\ key' = [key EXCEPT ![c] = None]
    /\ value' = [value EXCEPT ![c] = None]
    /\ todo' = [todo EXCEPT ![c] = {}]
    /\ read' = [read EXCEPT ![c] = [k \in Key |-> None]]
    /\ alone' = alone \ {c}

(***************************************************************************)
(* put and delete.                                                         *)
(***************************************************************************)
Begin(c, k, v) ==
    /\ pc[c] = "idle"
    /\ pc' = [pc EXCEPT ![c] = "begun"]
    /\ key' = [key EXCEPT ![c] = k]
    /\ value' = [value EXCEPT ![c] = v]
    /\ alone' = {d \in alone : ~Promise!Touches(d, k)} \cup
                {d \in {c} : \A e \in Caller : ~Promise!Touches(e, k)}
    /\ afloat' = [afloat EXCEPT ![k] = @ \cup {v}]
    /\ UNCHANGED <<file, index, todo, read>>

\* writeFile opens the file, which truncates it.
OpenFile(c) ==
    /\ pc[c] = "begun" /\ value[c] # None
    /\ pc' = [pc EXCEPT ![c] = "opened"]
    /\ file' = [file EXCEPT ![key[c]] = Torn]
    /\ UNCHANGED <<index, callVars, alone, afloat>>

\* Two writers of one file may mix what they write, and one that was removed since takes nothing.
WriteFile(c) ==
    /\ pc[c] = "opened"
    /\ pc' = [pc EXCEPT ![c] = "stored"]
    /\ \E f \in {value[c]} \cup (IF c \in alone THEN {} ELSE {Torn, file[key[c]]}) :
           file' = [file EXCEPT ![key[c]] = f]
    /\ UNCHANGED <<index, callVars, alone, afloat>>

\* Mutant: the file of a deleted document stays.
RemovedKept(k) == file[k]
Removed(k) == None

RemoveFile(c) ==
    /\ pc[c] = "begun" /\ value[c] = None
    /\ pc' = [pc EXCEPT ![c] = "stored"]
    /\ file' = [file EXCEPT ![key[c]] = Removed(key[c])]
    /\ UNCHANGED <<index, callVars, alone, afloat>>

UpdateIndex(c) ==
    /\ pc[c] = "stored"
    /\ Leave(c)
    /\ index' = [index EXCEPT ![key[c]] = value[c]]
    /\ afloat' = [afloat EXCEPT ![key[c]] = IF c \in alone THEN {value[c]} ELSE @]
    /\ UNCHANGED file

\* The process of the caller ends, or its call fails.
Crash(c) ==
    /\ pc[c] # "idle"
    /\ Leave(c)
    /\ UNCHANGED <<file, index, afloat>>

(***************************************************************************)
(* rebuildIndex: list the files, read each, then replace all rows at once. *)
(* A file that is gone or is not JSON fails the rebuild.                   *)
(***************************************************************************)
ListFiles(c) ==
    /\ pc[c] = "idle"
    /\ pc' = [pc EXCEPT ![c] = "reading"]
    /\ todo' = [todo EXCEPT ![c] = {k \in Key : file[k] # None}]
    /\ read' = [read EXCEPT ![c] = [k \in Key |-> None]]
    /\ alone' = {}
    /\ UNCHANGED <<file, index, key, value, afloat>>

\* Mutant: a file that does not parse is skipped.
UnparsableNone(f) == f = None
Unparsable(f) == f \in {None, Torn}

ReadFile(c, k) ==
    /\ pc[c] = "reading" /\ k \in todo[c]
    /\ ~Unparsable(file[k])
    /\ todo' = [todo EXCEPT ![c] = @ \ {k}]
    /\ read' = [read EXCEPT ![c][k] = IF file[k] = Torn THEN None ELSE file[k]]
    /\ UNCHANGED <<file, index, pc, key, value, alone, afloat>>

FailRebuild(c, k) ==
    /\ pc[c] = "reading" /\ k \in todo[c]
    /\ Unparsable(file[k])
    /\ Leave(c)
    /\ UNCHANGED <<file, index, afloat>>

ReplaceRows(c) ==
    /\ pc[c] = "reading" /\ todo[c] = {}
    /\ Leave(c)
    /\ index' = read[c]
    /\ UNCHANGED <<file, afloat>>

FileNext == \E c \in Caller :
    \/ \E k \in Key, v \in Content : Begin(c, k, v)
    \/ OpenFile(c) \/ WriteFile(c) \/ RemoveFile(c) \/ UpdateIndex(c) \/ Crash(c)
    \/ ListFiles(c) \/ ReplaceRows(c)
    \/ \E k \in Key : ReadFile(c, k) \/ FailRebuild(c, k)

FileSpec == FileInit /\ [][FileNext]_fileVars

(***************************************************************************)
(* Properties.                                                             *)
(***************************************************************************)
TypeOK ==
    /\ file \in [Key -> Content \cup {Torn}]
    /\ index \in [Key -> Content]
    /\ pc \in [Caller -> {"idle", "begun", "opened", "stored", "reading"}]
    /\ key \in [Caller -> Key \cup {None}]
    /\ value \in [Caller -> Content]
    /\ todo \in [Caller -> SUBSET Key]
    /\ read \in [Caller -> [Key -> Content]]
    /\ alone \subseteq Caller
    /\ afloat \in [Key -> SUBSET Content]

\* The files, the index what a rebuild has read and what is being written are afloat, and
\* nothing else is (fs-adapter.ts
\* put, delete, rebuildIndex): a settled document is the one in its file, whatever overlapped or
\* crashed before it.
OnlyAfloat ==
    /\ \A k \in Key : file[k] \in afloat[k] \cup {Torn} /\ index[k] \in afloat[k]
    /\ \A c \in Caller : pc[c] = "reading" =>
           \A k \in Key : k \in todo[c] \/ read[c][k] \in afloat[k]
    /\ \A c \in Caller : pc[c] \in {"begun", "opened", "stored"} =>
           key[c] \in Key /\ value[c] \in afloat[key[c]]

\* A write that is alone has its key to itself, and its file holds what it stored.
AloneHolds == \A c \in alone :
    /\ pc[c] \in {"begun", "opened", "stored"}
    /\ \A d \in Caller \ {c} : ~Promise!Touches(d, key[c])
    /\ pc[c] = "stored" => file[key[c]] = value[c]

\* The storage implements what its callers are promised (fs-adapter.ts): every step on disk is a
\* step of the promise or none.
KeepsPromise == Promise!StoreSpec
=============================================================================
