--------------------------- MODULE Storage_proofs ---------------------------
(***************************************************************************)
(* The file-system storage keeps its promise, for any number of documents, *)
(* contents and callers.  The database storages return what was put,       *)
(* restore what a transaction changed and read every page, for any ids,    *)
(* collections, references, documents, filters and page size.              *)
(***************************************************************************)
EXTENDS FileStore, Adapters, Site, FiniteSetTheorems, WellFoundedInduction, TLAPS

FileInv == TypeOK /\ OnlyAfloat /\ AloneHolds

\* Touching, in terms of the storage: a rebuild at work, or a write of the key.
LEMMA TouchesIs ==
    ASSUME NEW c \in Caller, NEW k
    PROVE  Promise!Touches(c, k) <=>
               (pc[c] = "reading" \/ (pc[c] \notin {"idle", "reading"} /\ key[c] = k))
  BY DEF Promise!Touches, Kind, KindOf

\* The invariant holds of an empty store.
LEMMA FileInitInv == FileInit => FileInv
  BY DEF FileInit, FileInv, TypeOK, OnlyAfloat, AloneHolds, Content

\* Every step of the storage preserves the types.
LEMMA FileTypeStep ==
    ASSUME TypeOK, [FileNext]_fileVars
    PROVE  TypeOK'
<1> USE DEF TypeOK, Content
<1>1. ASSUME NEW c \in Caller, NEW k \in Key, NEW v \in Content, Begin(c, k, v)
      PROVE  TypeOK'
  BY <1>1 DEF Begin
<1>2. ASSUME NEW c \in Caller, OpenFile(c) PROVE TypeOK'
  BY <1>2 DEF OpenFile, callVars
<1>3. ASSUME NEW c \in Caller, WriteFile(c) PROVE TypeOK'
  <2>1. PICK f \in {value[c]} \cup (IF c \in alone THEN {} ELSE {Torn, file[key[c]]}) :
            file' = [file EXCEPT ![key[c]] = f]
    BY <1>3 DEF WriteFile
  <2>2. file' \in [Key -> Value \cup {None} \cup {Torn}]
    BY <2>1
  <2> QED BY <1>3, <2>2 DEF WriteFile, callVars
<1>4. ASSUME NEW c \in Caller, RemoveFile(c) PROVE TypeOK'
  BY <1>4 DEF RemoveFile, Removed, callVars
<1>5. ASSUME NEW c \in Caller, UpdateIndex(c) PROVE TypeOK'
  <2>1. /\ pc' \in [Caller -> {"idle", "begun", "opened", "stored", "reading"}]
        /\ key' \in [Caller -> Key \cup {None}]
        /\ value' \in [Caller -> Value \cup {None}]
        /\ todo' \in [Caller -> SUBSET Key]
        /\ alone' \subseteq Caller
    BY <1>5 DEF UpdateIndex, Leave
  <2>2. read' \in [Caller -> [Key -> Value \cup {None}]]
    BY <1>5 DEF UpdateIndex, Leave
  <2>3. index' \in [Key -> Value \cup {None}] /\ afloat' \in [Key -> SUBSET (Value \cup {None})]
    BY <1>5 DEF UpdateIndex
  <2> QED BY <1>5, <2>1, <2>2, <2>3 DEF UpdateIndex
<1>6. ASSUME NEW c \in Caller, Leave(c), UNCHANGED <<file, index, afloat>> PROVE TypeOK'
  BY <1>6 DEF Leave
<1>7. ASSUME NEW c \in Caller, ListFiles(c) PROVE TypeOK'
  BY <1>7 DEF ListFiles
<1>8. ASSUME NEW c \in Caller, ReplaceRows(c) PROVE TypeOK'
  BY <1>8 DEF ReplaceRows, Leave
<1>9. ASSUME NEW c \in Caller, NEW k \in Key, ReadFile(c, k) PROVE TypeOK'
  <2>1. file[k] \in Value \cup {None}
    BY <1>9 DEF ReadFile, Unparsable
  <2> QED BY <1>9, <2>1 DEF ReadFile
<1> QED BY <1>1, <1>2, <1>3, <1>4, <1>5, <1>6, <1>7, <1>8, <1>9
        DEF FileNext, fileVars, callVars, Crash, FailRebuild

\* A step of one caller on its own key leaves the key of a lone writer alone.
LEMMA AloneApart ==
    ASSUME TypeOK, AloneHolds, NEW c \in Caller, NEW d \in alone, d # c,
           pc[c] \notin {"idle", "reading"}
    PROVE  key[d] # key[c]
  BY TouchesIs DEF AloneHolds, TypeOK

\* When a call ends, the lone writers that remain keep what they have.
LEMMA AloneRest ==
    ASSUME TypeOK, AloneHolds, NEW c \in Caller, pc' = [pc EXCEPT ![c] = "idle"],
           \A d \in Caller \ {c} : key'[d] = key[d] /\ value'[d] = value[d],
           alone' = alone \ {c}, file' = file
    PROVE  AloneHolds'
<1>1. pc'[c] = "idle" /\ \A d \in Caller \ {c} : pc'[d] = pc[d]
  BY DEF TypeOK
<1>2. ASSUME NEW d \in alone'
      PROVE  /\ pc'[d] \in {"begun", "opened", "stored"}
             /\ \A e \in Caller \ {d} : ~Promise!Touches(e, key[d])'
             /\ pc'[d] = "stored" => file'[key'[d]] = value'[d]
  <2>1. d \in alone /\ d \in Caller \ {c}
    BY <1>2 DEF TypeOK
  <2>2. ASSUME NEW e \in Caller \ {d} PROVE ~Promise!Touches(e, key[d])'
    <3>1. CASE e = c
      BY <1>1, <3>1 DEF Promise!Touches, Kind, KindOf
    <3>2. CASE e # c
      <4>1. ~Promise!Touches(e, key[d])
        BY <2>1 DEF AloneHolds
      <4> QED BY <1>1, <2>1, <3>2, <4>1 DEF Promise!Touches, Kind, KindOf
    <3> QED BY <3>1, <3>2
  <2> QED BY <1>1, <2>1, <2>2 DEF AloneHolds
<1> QED BY <1>2 DEF AloneHolds

\* Every step preserves what is afloat and what a lone writer holds.
LEMMA FileInvStep ==
    ASSUME FileInv, [FileNext]_fileVars
    PROVE  FileInv'
<1> USE DEF FileInv, OnlyAfloat, AloneHolds
<1>0. TypeOK'
  BY FileTypeStep
<1>1. ASSUME NEW c \in Caller, NEW k \in Key, NEW v \in Content, Begin(c, k, v)
      PROVE  OnlyAfloat' /\ AloneHolds'
  <2>1. afloat[k] \subseteq afloat'[k] /\ \A j \in Key : afloat[j] \subseteq afloat'[j]
    BY <1>1 DEF Begin, TypeOK
  <2>2. OnlyAfloat'
    BY <1>1, <2>1 DEF Begin, TypeOK
  <2>3. ASSUME NEW d \in alone', d # c
        PROVE  /\ pc'[d] \in {"begun", "opened", "stored"}
               /\ \A e \in Caller \ {d} : ~Promise!Touches(e, key[d])'
               /\ pc'[d] = "stored" => file'[key'[d]] = value'[d]
    <3>1. d \in alone /\ ~Promise!Touches(d, k)
      BY <1>1, <2>3 DEF Begin
    <3>2. pc'[d] = pc[d] /\ key'[d] = key[d] /\ value'[d] = value[d] /\ key[d] # k
      BY <1>1, <2>3, <3>1, TouchesIs DEF Begin, TypeOK
    <3>3. ASSUME NEW e \in Caller \ {d} PROVE ~Promise!Touches(e, key[d])'
      <4>1. CASE e = c
        BY <1>1, <3>2, <4>1 DEF Begin, TypeOK, Promise!Touches, Kind, KindOf
      <4>2. CASE e # c
        <5>1. ~Promise!Touches(e, key[d])
          BY <3>1
        <5> QED BY <1>1, <3>2, <4>2, <5>1 DEF Begin, TypeOK, Promise!Touches, Kind, KindOf
      <4> QED BY <4>1, <4>2
    <3> QED BY <1>1, <3>1, <3>2, <3>3 DEF Begin
  <2>4. ASSUME c \in alone'
        PROVE  /\ pc'[c] = "begun"
               /\ \A e \in Caller \ {c} : ~Promise!Touches(e, key[c])'
    <3>1. \A e \in Caller : ~Promise!Touches(e, k)
      <4>1. c \notin alone
        BY <1>1 DEF Begin
      <4> QED BY <1>1, <2>4, <4>1 DEF Begin
    <3>2. pc'[c] = "begun" /\ key'[c] = k
      BY <1>1 DEF Begin, TypeOK
    <3>3. ASSUME NEW e \in Caller \ {c} PROVE ~Promise!Touches(e, key[c])'
      BY <1>1, <3>1, <3>2 DEF Begin, TypeOK, Promise!Touches, Kind, KindOf
    <3> QED BY <3>2, <3>3
  <2> QED BY <1>0, <2>2, <2>3, <2>4
<1>2. ASSUME NEW c \in Caller, pc[c] \notin {"idle", "reading"}, OpenFile(c) \/ WriteFile(c) \/ RemoveFile(c)
      PROVE  OnlyAfloat' /\ AloneHolds'
  <2>1. UNCHANGED <<index, key, value, todo, read, alone, afloat>>
    BY <1>2 DEF OpenFile, WriteFile, RemoveFile, callVars
  <2>2. /\ pc'[c] \in {"opened", "stored"}
        /\ \A d \in Caller \ {c} : pc'[d] = pc[d]
    BY <1>2 DEF OpenFile, WriteFile, RemoveFile, TypeOK
  <2>3. \A k \in Key : k # key[c] => file'[k] = file[k]
    BY <1>2 DEF OpenFile, WriteFile, RemoveFile, TypeOK
  <2>4. key[c] \in Key /\ value[c] \in afloat[key[c]]
    BY <1>2 DEF TypeOK
  <2>5. file'[key[c]] \in {value[c], Torn, None, file[key[c]]}
    BY <1>2, <2>4 DEF OpenFile, WriteFile, RemoveFile, Removed, TypeOK
  <2>6. file'[key[c]] \in afloat[key[c]] \cup {Torn}
    BY <1>2, <2>4 DEF OpenFile, WriteFile, RemoveFile, Removed, TypeOK
  <2>7. OnlyAfloat'
    BY <1>2, <2>1, <2>2, <2>3, <2>4, <2>6 DEF TypeOK
  <2>8. \A e \in Caller : \A k : Promise!Touches(e, k)' <=> Promise!Touches(e, k)
    BY <1>2, <2>1, <2>2, <1>0 DEF TypeOK, Promise!Touches, Kind, KindOf
  <2>9. ASSUME NEW d \in alone', d # c
        PROVE  /\ pc'[d] \in {"begun", "opened", "stored"}
               /\ \A e \in Caller \ {d} : ~Promise!Touches(e, key[d])'
               /\ pc'[d] = "stored" => file'[key'[d]] = value'[d]
    <3>1. d \in alone /\ pc'[d] = pc[d] /\ key[d] # key[c] /\ d \in Caller
      BY <1>2, <2>1, <2>2, <2>9, AloneApart DEF TypeOK
    <3>2. key[d] \in Key
      BY <3>1
    <3> QED BY <2>1, <2>3, <2>8, <3>1, <3>2 DEF Promise!Touches
  <2>10. ASSUME c \in alone'
         PROVE  /\ pc'[c] \in {"begun", "opened", "stored"}
                /\ \A e \in Caller \ {c} : ~Promise!Touches(e, key[c])'
                /\ pc'[c] = "stored" => file'[key'[c]] = value'[c]
    <3>1. c \in alone
      BY <2>1, <2>10
    <3>2. \A e \in Caller \ {c} : ~Promise!Touches(e, key[c])'
      BY <2>1, <2>8, <3>1 DEF Promise!Touches
    <3>3. pc'[c] = "stored" => file'[key'[c]] = value'[c]
      BY <1>2, <2>1, <2>4, <3>1 DEF OpenFile, WriteFile, RemoveFile, Removed, TypeOK
    <3> QED BY <2>2, <3>2, <3>3
  <2> QED BY <2>7, <2>9, <2>10
<1>3. ASSUME NEW c \in Caller, Leave(c), UNCHANGED <<file, afloat>>,
             index' = index \/ (index' = read[c] /\ pc[c] = "reading" /\ todo[c] = {})
      PROVE  OnlyAfloat' /\ AloneHolds'
  <2>1. /\ pc'[c] = "idle"
        /\ \A d \in Caller \ {c} : /\ pc'[d] = pc[d] /\ key'[d] = key[d] /\ value'[d] = value[d]
                                   /\ todo'[d] = todo[d] /\ read'[d] = read[d]
    BY <1>3 DEF Leave, TypeOK
  <2>2. \A k \in Key : index'[k] \in afloat[k]
    BY <1>3
  <2>3. OnlyAfloat'
    BY <1>3, <2>1, <2>2 DEF TypeOK
  <2>5. AloneHolds'
    BY <1>3, <2>1, AloneRest DEF Leave
  <2> QED BY <2>3, <2>5
<1>4. ASSUME NEW c \in Caller, UpdateIndex(c)
      PROVE  OnlyAfloat' /\ AloneHolds'
  <2>1. /\ pc'[c] = "idle" /\ file' = file
        /\ \A d \in Caller \ {c} : /\ pc'[d] = pc[d] /\ key'[d] = key[d] /\ value'[d] = value[d]
                                   /\ todo'[d] = todo[d] /\ read'[d] = read[d]
    BY <1>4 DEF UpdateIndex, Leave, TypeOK
  <2>2. key[c] \in Key /\ value[c] \in afloat[key[c]] /\ pc[c] = "stored"
    BY <1>4 DEF UpdateIndex
  <2>3. \A k \in Key : k # key[c] => afloat'[k] = afloat[k] /\ index'[k] = index[k]
    BY <1>4 DEF UpdateIndex, TypeOK
  <2>4. index'[key[c]] = value[c] /\ value[c] \in afloat'[key[c]]
    BY <1>4, <2>2 DEF UpdateIndex, TypeOK
  <2>6. AloneHolds'
    BY <1>4, <2>1, AloneRest DEF UpdateIndex, Leave
  <2>7. CASE c \in alone
    <3>1. file[key[c]] = value[c]
      BY <2>2, <2>7
    <3>2. \A d \in Caller \ {c} : pc[d] # "reading" /\ (pc[d] \in {"begun", "opened", "stored"} => key[d] # key[c])
      BY <2>7, TouchesIs
    <3> QED BY <2>1, <2>2, <2>3, <2>4, <2>6, <3>1, <3>2
  <2>8. CASE c \notin alone
    <3>1. afloat' = afloat
      BY <1>4, <2>8 DEF UpdateIndex, TypeOK
    <3> QED BY <2>1, <2>2, <2>3, <2>4, <2>6, <3>1
  <2> QED BY <2>7, <2>8
<1>5. ASSUME NEW c \in Caller, ListFiles(c)
      PROVE  OnlyAfloat' /\ AloneHolds'
  <2>1. \A k \in Key : k \in todo'[c] \/ (read'[c][k] = None /\ file[k] = None)
    BY <1>5 DEF ListFiles, TypeOK
  <2>2. \A k \in Key : file[k] = None => None \in afloat[k]
    BY ContentAssumption
  <2> QED BY <1>5, <2>1, <2>2 DEF ListFiles, TypeOK
<1>6. ASSUME NEW c \in Caller, NEW k \in Key, ReadFile(c, k)
      PROVE  OnlyAfloat' /\ AloneHolds'
  <2>1. /\ UNCHANGED <<file, index, pc, key, value, alone, afloat>>
        /\ \A d \in Caller \ {c} : todo'[d] = todo[d] /\ read'[d] = read[d]
        /\ todo'[c] = todo[c] \ {k}
        /\ \A j \in Key \ {k} : read'[c][j] = read[c][j]
        /\ read'[c][k] = file[k] /\ file[k] # Torn
    BY <1>6 DEF ReadFile, Unparsable, TypeOK
  <2>2. OnlyAfloat'
    BY <2>1
  <2>3. AloneHolds'
    BY <2>1 DEF Promise!Touches, Kind, KindOf
  <2> QED BY <2>2, <2>3
<1>7. CASE UNCHANGED fileVars
  <2>1. UNCHANGED <<file, index, pc, key, value, todo, read, alone, afloat>>
    BY <1>7 DEF fileVars, callVars
  <2>2. OnlyAfloat'
    BY <2>1
  <2>3. AloneHolds'
    BY <2>1 DEF Promise!Touches, Kind, KindOf
  <2> QED BY <1>0, <2>2, <2>3
<1>8. ASSUME NEW c \in Caller, Crash(c) \/ ReplaceRows(c) \/ (\E k \in Key : FailRebuild(c, k))
      PROVE  OnlyAfloat' /\ AloneHolds'
  <2> HIDE DEF FileInv, OnlyAfloat, AloneHolds
  <2>1. CASE Crash(c)
    <3>1. Leave(c) /\ file' = file /\ afloat' = afloat /\ index' = index
      BY <2>1 DEF Crash
    <3> QED BY <1>3, <3>1
  <2>2. CASE ReplaceRows(c)
    <3>1. Leave(c) /\ file' = file /\ afloat' = afloat
      BY <2>2 DEF ReplaceRows
    <3>2. index' = read[c] /\ pc[c] = "reading" /\ todo[c] = {}
      BY <2>2 DEF ReplaceRows
    <3> QED BY <1>3, <3>1, <3>2
  <2>3. ASSUME NEW k \in Key, FailRebuild(c, k) PROVE OnlyAfloat' /\ AloneHolds'
    <3>1. Leave(c) /\ file' = file /\ afloat' = afloat /\ index' = index
      BY <2>3 DEF FailRebuild
    <3> QED BY <1>3, <3>1
  <2> QED BY <1>8, <2>1, <2>2, <2>3
<1>9. ASSUME NEW c \in Caller, OpenFile(c) \/ WriteFile(c) \/ RemoveFile(c)
      PROVE  OnlyAfloat' /\ AloneHolds'
  <2>1. pc[c] \notin {"idle", "reading"}
    BY <1>9 DEF OpenFile, WriteFile, RemoveFile
  <2> QED BY <1>2, <1>9, <2>1
<1>10. OnlyAfloat' /\ AloneHolds'
  <2>1. CASE FileNext
    <3>1. PICK c \in Caller :
            \/ \E k \in Key, v \in Content : Begin(c, k, v)
            \/ OpenFile(c) \/ WriteFile(c) \/ RemoveFile(c) \/ UpdateIndex(c) \/ Crash(c)
            \/ ListFiles(c) \/ ReplaceRows(c)
            \/ \E k \in Key : ReadFile(c, k) \/ FailRebuild(c, k)
      BY <2>1 DEF FileNext
    <3> HIDE DEF OnlyAfloat, AloneHolds, FileInv
    <3> QED BY <1>1, <1>4, <1>5, <1>6, <1>8, <1>9, <3>1
  <2> QED BY <1>7, <2>1
<1> QED BY <1>0, <1>10

\* The files and the index hold what is afloat, and a lone writer has its key to itself.
THEOREM FilesInvariant == FileSpec => []FileInv
<1>1. FileInv /\ [FileNext]_fileVars => FileInv'
  BY FileInvStep
<1> QED BY FileInitInv, <1>1, PTL DEF FileSpec

\* What a caller is doing changes with its pc only.
LEMMA KindStep ==
    ASSUME TypeOK, NEW c \in Caller, NEW at, pc' = [pc EXCEPT ![c] = at]
    PROVE  Kind' = [Kind EXCEPT ![c] = KindOf(at)]
  BY DEF TypeOK, Kind

\* Every step of the storage is a step of its promise, or changes nothing that the promise names.
LEMMA PromiseStep ==
    ASSUME FileInv, [FileNext]_fileVars
    PROVE  [Promise!StoreNext]_(Promise!storeVars)
<1> USE DEF FileInv
<1>0. TypeOK'
  BY FileTypeStep
<1>1. ASSUME NEW c \in Caller, NEW k \in Key, NEW v \in Content, Begin(c, k, v)
      PROVE  Promise!Write(c, k, v)
  <2>1. Kind' = [Kind EXCEPT ![c] = "write"]
    <3>1. pc' = [pc EXCEPT ![c] = "begun"]
      BY <1>1 DEF Begin
    <3>2. KindOf("begun") = "write"
      BY DEF KindOf
    <3> QED BY <3>1, <3>2, KindStep
  <2>2. Kind[c] = "none"
    BY <1>1 DEF Begin, Kind, KindOf
  <2> QED BY <1>1, <2>1, <2>2 DEF Begin, Promise!Write
<1>2. ASSUME NEW c \in Caller, OpenFile(c) \/ WriteFile(c) \/ RemoveFile(c)
      PROVE  UNCHANGED Promise!storeVars
  <2>1. UNCHANGED <<index, key, value, alone, afloat>>
    BY <1>2 DEF OpenFile, WriteFile, RemoveFile, callVars
  <2>2. pc' = [pc EXCEPT ![c] = "opened"] \/ pc' = [pc EXCEPT ![c] = "stored"]
    BY <1>2 DEF OpenFile, WriteFile, RemoveFile
  <2>3. Kind[c] = "write" /\ KindOf("opened") = "write" /\ KindOf("stored") = "write"
    BY <1>2 DEF OpenFile, WriteFile, RemoveFile, Kind, KindOf
  <2>4. Kind' = [Kind EXCEPT ![c] = "write"]
    BY <2>2, <2>3, KindStep
  <2>5. Kind' = Kind
    BY <2>3, <2>4 DEF Kind
  <2> QED BY <2>1, <2>5 DEF Promise!storeVars
<1>3. ASSUME NEW c \in Caller, Leave(c)
      PROVE  Promise!Leave(c)
  <2>1. Kind' = [Kind EXCEPT ![c] = "none"]
    BY <1>3, KindStep DEF Leave, KindOf
  <2> QED BY <1>3, <2>1 DEF Leave, Promise!Leave
<1>4. ASSUME NEW c \in Caller, UpdateIndex(c)
      PROVE  Promise!Answer(c)
  <2>1. Kind[c] = "write" /\ Leave(c)
    BY <1>4 DEF UpdateIndex, Kind, KindOf
  <2> QED BY <1>3, <1>4, <2>1 DEF UpdateIndex, Promise!Answer
<1>5. ASSUME NEW c \in Caller, Crash(c) \/ \E k \in Key : FailRebuild(c, k)
      PROVE  Promise!Abandon(c)
  <2>1. /\ Leave(c) /\ UNCHANGED <<index, afloat>>
        /\ Kind[c] # "none"
    BY <1>5 DEF Crash, FailRebuild, Kind, KindOf
  <2> QED BY <1>3, <2>1 DEF Promise!Abandon
<1>6. ASSUME NEW c \in Caller, ListFiles(c)
      PROVE  Promise!Rebuild(c)
  <2>1. Kind' = [Kind EXCEPT ![c] = "rebuild"]
    <3>1. pc' = [pc EXCEPT ![c] = "reading"]
      BY <1>6 DEF ListFiles
    <3> QED BY <3>1, KindStep DEF KindOf
  <2>2. Kind[c] = "none"
    BY <1>6 DEF ListFiles, Kind, KindOf
  <2> QED BY <1>6, <2>1, <2>2 DEF ListFiles, Promise!Rebuild
<1>7. ASSUME NEW c \in Caller, ReplaceRows(c)
      PROVE  Promise!Rebuilt(c)
  <2>1. Kind[c] = "rebuild" /\ Leave(c) /\ UNCHANGED afloat
    BY <1>7 DEF ReplaceRows, Kind, KindOf
  <2>2. \A k \in Key : index'[k] \in afloat[k]
    BY <1>7 DEF ReplaceRows, OnlyAfloat
  <2>3. index' \in [Key -> Promise!Content]
    BY <1>0 DEF TypeOK, Content, Promise!Content
  <2> QED BY <1>3, <2>1, <2>2, <2>3 DEF Promise!Rebuilt
<1>8. ASSUME NEW c \in Caller, NEW k \in Key, ReadFile(c, k)
      PROVE  UNCHANGED Promise!storeVars
  BY <1>8 DEF ReadFile, Promise!storeVars, Kind
<1>9. CASE UNCHANGED fileVars
  BY <1>9 DEF fileVars, callVars, Promise!storeVars, Kind
<1>10. CASE FileNext
  <2>1. PICK c \in Caller :
          \/ \E k \in Key, v \in Content : Begin(c, k, v)
          \/ OpenFile(c) \/ WriteFile(c) \/ RemoveFile(c) \/ UpdateIndex(c) \/ Crash(c)
          \/ ListFiles(c) \/ ReplaceRows(c)
          \/ \E k \in Key : ReadFile(c, k) \/ FailRebuild(c, k)
    BY <1>10 DEF FileNext
  <2>2. CASE \E k \in Key, v \in Content : Begin(c, k, v)
    BY <1>1, <2>2 DEF Promise!StoreNext, Content, Promise!Content
  <2>3. CASE OpenFile(c) \/ WriteFile(c) \/ RemoveFile(c) \/ \E k \in Key : ReadFile(c, k)
    BY <1>2, <1>8, <2>3
  <2>4. CASE UpdateIndex(c) \/ Crash(c) \/ ListFiles(c) \/ ReplaceRows(c) \/ \E k \in Key : FailRebuild(c, k)
    BY <1>4, <1>5, <1>6, <1>7, <2>4 DEF Promise!StoreNext
  <2> QED BY <2>1, <2>2, <2>3, <2>4
<1> QED BY <1>9, <1>10

\* The storage keeps its promise (fs-adapter.ts put, delete, rebuildIndex): however calls overlap and
\* crash, a reader sees a write when it is answered, and a rebuild brings back nothing but what was
\* written by calls that overlapped or were cut off since the last write that was alone.
THEOREM FilesKeepPromise == FileSpec => KeepsPromise
<1>1. FileInit => Promise!StoreInit
  BY DEF FileInit, Promise!StoreInit, Kind, KindOf
<1>2. FileInv /\ [FileNext]_fileVars => [Promise!StoreNext]_(Promise!storeVars)
  BY PromiseStep
<1> QED BY <1>1, <1>2, FilesInvariant, PTL DEF FileSpec, KeepsPromise, Promise!StoreSpec

-----------------------------------------------------------------------------
(* The database storages.                                                  *)

\* The rows of the typed tables; what a table or a collection may hold; a row and the document it is.
StoredRow == [mail : STRING, flag : {NULL, "1", "0"}, since : STRING \cup {NULL, "1", "0"}, extra : STRING]
Rows == {NoRow} \cup Document \cup StoredRow
Keeps(i, r, d) == \/ r = NoRow /\ d = NoDoc
                  \/ d \in Document /\ r = Stored(i, d)

\* The states that the calls, the transaction and the reader can be in.
Entries == [id : ids, prior : Document \cup {NoDoc}]
Calls == [at : {"idle", "sent", "found", "missing"}, id : ids \cup {0}, doc : Document \cup {NoDoc}]
Transactions ==
    [at : {"none", "open", "undo"}, journal : Seq(Entries), before : [ids -> Rows] \cup {<<>>},
     alone : BOOLEAN, free : BOOLEAN]
Walks == [at : {"none", "walking", "done"}, query : Filters \cup {<<>>}, after : Nat, seen : SUBSET ids,
          due : SUBSET ids]

Sent(c) ==
    /\ c.at = "idle" => c = Idle
    /\ c.at # "idle" => c.id \in ids
    /\ c.at \in {"found", "missing"} => c.doc \in Document

AdapterTypeOK ==
    /\ ids \in Scene
    /\ row \in [ids -> Rows]
    /\ plain \in [ids -> Document \cup {NoDoc}]
    /\ call \in [{"tx", "other"} -> Calls]
    /\ \A by \in {"tx", "other"} : Sent(call[by])
    /\ tx \in Transactions
    /\ tx.at # "none" => tx.before \in [ids -> Rows]
    /\ walk \in Walks

\* A missing row and a missing document are neither a row nor a document.
LEMMA MarksAreNoDocuments ==
    /\ NoDoc # NoRow
    /\ \A d \in Document : d # NoDoc /\ d # NoRow
    /\ \A r \in StoredRow : r # NoRow
<1>1. NoDoc # NoRow
  BY DEF NoDoc, NoRow
<1>2. DOMAIN NoDoc = {"none"} /\ DOMAIN NoRow = {"none"}
  BY DEF NoDoc, NoRow
<1>3. \A d \in Document : "mail" \in DOMAIN d
  BY DEF Document
<1>4. \A r \in StoredRow : "mail" \in DOMAIN r
  BY DEF StoredRow
<1> QED
  BY <1>1, <1>2, <1>3, <1>4

\* typed-mapper.ts: a document that went to columns is read back as it was.
LEMMA DocumentSurvives ==
  ASSUME NEW d \in Document
  PROVE  DocToRow(d) \in StoredRow /\ RowToDoc(DocToRow(d)) = d
<1> DEFINE r == DocToRow(d)
<1>a. d.flag \in {"absent", "true", "false"} /\ d.since \in STRING \ {"absent", "NULL", "0", "1"}
      /\ d.mail \in STRING /\ d.more \in STRING
  BY DEF Document
<1>1. ToStore(d.flag) \in {NULL, "1", "0"}
  BY <1>a DEF ToStore, NULL
<1>2a. ToStore(d.since) \in STRING \cup {NULL, "1", "0"}
  BY <1>a DEF ToStore, NULL
<1>2. r \in StoredRow
  BY <1>1, <1>2a, <1>a DEF DocToRow, StoredRow
<1>3. (IF ToStore(d.flag) = NULL THEN "absent" ELSE FromStore(ToStore(d.flag))) = d.flag
  BY <1>a DEF ToStore, FromStore, NULL
<1>4. FromStore(ToStore(d.since)) = d.since
  BY <1>a DEF ToStore, FromStore, NULL
<1>5. RowToDoc(r) = [mail |-> d.mail, flag |-> d.flag, since |-> d.since, more |-> d.more]
  BY <1>3, <1>4 DEF RowToDoc, DocToRow
<1>6. d = [mail |-> d.mail, flag |-> d.flag, since |-> d.since, more |-> d.more]
  BY DEF Document
<1> QED
  BY <1>2, <1>5, <1>6

\* A document reads as it was stored, in a typed table or as a document.
LEMMA ReadStored ==
  ASSUME NEW i, NEW d \in Document
  PROVE  Stored(i, d) \in Rows /\ Stored(i, d) # NoRow /\ Read(i, Stored(i, d)) = d
<1>1. CASE Typed(i)
  BY <1>1, DocumentSurvives, MarksAreNoDocuments DEF Stored, Read, Rows
<1>2. CASE ~Typed(i)
  BY <1>2, MarksAreNoDocuments DEF Stored, Read, Rows
<1> QED
  BY <1>1, <1>2

\* What is kept for a document is read as that document.
LEMMA ReadKept ==
  ASSUME NEW i, NEW r, NEW d, Keeps(i, r, d)
  PROVE  /\ Read(i, r) = d /\ r \in Rows /\ d \in Document \cup {NoDoc}
         /\ r = NoRow <=> d = NoDoc
<1>1. CASE r = NoRow /\ d = NoDoc
  BY <1>1 DEF Read, Rows
<1>2. CASE d \in Document /\ r = Stored(i, d)
  BY <1>2, ReadStored, MarksAreNoDocuments
<1> QED
  BY <1>1, <1>2 DEF Keeps

\* An effect leaves the transaction where it was and only lowers its flags.
LEMMA NotedTypes ==
  ASSUME tx \in Transactions, NEW by, NEW acted \in BOOLEAN, Noted(by, acted)
  PROVE  /\ tx'.at = tx.at /\ tx'.journal = tx.journal /\ tx'.before = tx.before
         /\ tx'.alone <=> tx.alone /\ (tx.at = "none" \/ by = "tx")
         /\ tx'.free <=> tx.free /\ ~acted
         /\ tx' \in Transactions
<1>1. PICK a \in BOOLEAN : a = (tx.alone /\ (tx.at = "none" \/ by = "tx"))
  OBVIOUS
<1>2. PICK f \in BOOLEAN : f = (tx.free /\ ~acted)
  OBVIOUS
<1>3. tx' = [tx EXCEPT !.alone = a, !.free = f]
  BY <1>1, <1>2 DEF Noted
<1>4. /\ tx'.at = tx.at /\ tx'.journal = tx.journal /\ tx'.before = tx.before
      /\ tx'.alone = a /\ tx'.free = f /\ tx' \in Transactions
  BY <1>3 DEF Transactions
<1> QED
  BY <1>1, <1>2, <1>4, Zenon

\* Each row is the document last put; the prior values of a transaction are documents too.
RowsKeep == \A i \in ids : Keeps(i, row[i], plain[i])
BeforeKeeps == tx.at # "none" => \A i \in ids : Keeps(i, tx.before[i], Read(i, tx.before[i]))
AdapterInv == AdapterTypeOK /\ RowsKeep /\ BeforeKeeps

\* The invariant holds of an empty storage.
LEMMA AdapterInitInv == AdapterInit => AdapterInv
<1> SUFFICES ASSUME AdapterInit PROVE AdapterInv
  OBVIOUS
<1> USE DEF AdapterInit
<1>1. /\ ids \in Scene /\ row \in [ids -> Rows] /\ plain \in [ids -> Document \cup {NoDoc}]
  BY DEF Rows
<1>2. Idle \in Calls /\ Sent(Idle)
  BY DEF Calls, Idle, Sent
<1>3. NoTx \in Transactions /\ NoTx.at = "none"
  BY DEF NoTx, Transactions
<1>4. NoWalk \in Walks
  BY DEF NoWalk, Walks
<1>5. AdapterTypeOK
  BY <1>1, <1>2, <1>3, <1>4 DEF AdapterTypeOK
<1>6. RowsKeep
  BY DEF RowsKeep, Keeps
<1>7. BeforeKeeps
  BY <1>3 DEF BeforeKeeps
<1> QED
  BY <1>5, <1>6, <1>7 DEF AdapterInv

\* What the reader must still see only shrinks.
LEMMA StillDueTypes ==
  ASSUME AdapterTypeOK, UNCHANGED ids, StillDue
  PROVE  /\ walk' \in Walks' /\ walk'.at = walk.at /\ walk'.query = walk.query
         /\ walk'.after = walk.after /\ walk'.seen = walk.seen
         /\ walk'.due = IF walk.at = "walking" THEN walk.due \cap Answers(walk.query) ELSE walk.due
BY DEF AdapterTypeOK, StillDue, Walks

\* What an effect leaves behind, besides the call that had it.
Effect == AdapterTypeOK /\ RowsKeep /\ BeforeKeeps /\ UNCHANGED <<backend, ids>>
Settled ==
    /\ row' \in [ids -> Rows] /\ plain' \in [ids -> Document \cup {NoDoc}]
    /\ tx' \in Transactions' /\ tx'.at = tx.at /\ tx'.before = tx.before /\ tx'.journal = tx.journal
    /\ walk' \in Walks'
    /\ RowsKeep' /\ BeforeKeeps'

\* The values from before a transaction stay what they were.
LEMMA BeforeStays ==
  ASSUME BeforeKeeps, UNCHANGED <<backend, ids>>, tx'.at = tx.at, tx'.before = tx.before
  PROVE  BeforeKeeps'
BY DEF BeforeKeeps, Keeps, Read, Stored, Typed

\* A refused call keeps every row.
LEMMA StaysSettles ==
  ASSUME Effect, NEW by, NEW acted \in BOOLEAN, Stays(by, acted)
  PROVE  Settled
<1> USE DEF Effect
<1>1. /\ tx' \in Transactions /\ tx'.at = tx.at /\ tx'.before = tx.before /\ tx'.journal = tx.journal
  BY NotedTypes DEF Stays, AdapterTypeOK
<1>2. tx' \in Transactions' /\ walk' \in Walks'
  BY <1>1 DEF Stays, AdapterTypeOK, Transactions, Entries, Walks
<1>3. RowsKeep'
  BY DEF RowsKeep, Stays, Keeps, Stored, Typed
<1>4. BeforeKeeps'
  BY <1>1, BeforeStays
<1> QED
  BY <1>1, <1>2, <1>3, <1>4 DEF Settled, Stays, AdapterTypeOK

\* An upsert leaves the rows and the documents in step.
LEMMA TakesSettles ==
  ASSUME Effect, NEW by, NEW i \in ids, NEW d \in Document, Takes(by, i, d)
  PROVE  Settled
<1> USE DEF Effect
<1>1. /\ tx' \in Transactions /\ tx'.at = tx.at /\ tx'.before = tx.before /\ tx'.journal = tx.journal
  BY NotedTypes DEF Takes, AdapterTypeOK
<1>2. tx' \in Transactions' /\ walk' \in Walks'
  BY <1>1, StillDueTypes DEF Takes, Transactions, Entries
<1>3. row' = [row EXCEPT ![i] = Stored(i, d)] /\ plain' = [plain EXCEPT ![i] = d]
  BY DEF Takes, Upserted
<1>4. row' \in [ids -> Rows] /\ plain' \in [ids -> Document \cup {NoDoc}]
  BY <1>3, ReadStored DEF AdapterTypeOK
<1>5. \A j \in ids : Keeps(j, row'[j], plain'[j])
  BY <1>3 DEF RowsKeep, Keeps, AdapterTypeOK
<1>6. RowsKeep'
  BY <1>5 DEF RowsKeep, Keeps, Stored, Typed
<1>7. BeforeKeeps'
  BY <1>1, BeforeStays
<1> QED
  BY <1>1, <1>2, <1>4, <1>6, <1>7 DEF Settled

\* A delete that is not held back, with the rows that refer to the deleted one.
DeleteEffect(by, i) ==
    /\ row' = Deleted(i)
    /\ plain' = [j \in ids |-> IF j \in Gone(i) THEN NoDoc ELSE plain[j]]
    /\ Noted(by, Children(i) # {})
    /\ StillDue

\* A delete and its cascade leave the rows and the documents in step.
LEMMA DeleteSettles ==
  ASSUME Effect, NEW by, NEW i \in ids, DeleteEffect(by, i)
  PROVE  Settled
<1> USE DEF Effect
<1>1. /\ tx' \in Transactions /\ tx'.at = tx.at /\ tx'.before = tx.before /\ tx'.journal = tx.journal
  <2>1. (Children(i) # {}) \in BOOLEAN
    OBVIOUS
  <2> QED
    BY <2>1, NotedTypes DEF DeleteEffect, AdapterTypeOK
<1>2. tx' \in Transactions' /\ walk' \in Walks'
  BY <1>1, StillDueTypes DEF DeleteEffect, Transactions, Entries
<1>4. row' \in [ids -> Rows] /\ plain' \in [ids -> Document \cup {NoDoc}]
  BY DEF AdapterTypeOK, DeleteEffect, Deleted, Rows
<1>5. \A j \in ids : Keeps(j, row'[j], plain'[j])
  BY DEF RowsKeep, Keeps, AdapterTypeOK, DeleteEffect, Deleted
<1>6. RowsKeep'
  BY <1>5 DEF RowsKeep, Keeps, Stored, Typed
<1>7. BeforeKeeps'
  BY <1>1, BeforeStays
<1> QED
  BY <1>1, <1>2, <1>4, <1>6, <1>7 DEF Settled

\* A call that had its effect leaves the invariant in place.
LEMMA SettledInv ==
  ASSUME AdapterInv, UNCHANGED <<backend, ids>>, Settled,
         NEW by \in {"tx", "other"}, call' = [call EXCEPT ![by] = Idle]
  PROVE  AdapterInv'
<1>1. Idle \in Calls' /\ Sent(Idle)'
  BY DEF Calls, Idle, Sent
<1>2. call' \in [{"tx", "other"} -> Calls']
  BY <1>1 DEF AdapterInv, AdapterTypeOK, Calls
<1>3. \A b \in {"tx", "other"} : Sent(call[b])'
  BY <1>1 DEF AdapterInv, AdapterTypeOK, Sent
<1>4. AdapterTypeOK'
  BY <1>2, <1>3 DEF AdapterInv, AdapterTypeOK, Settled
<1> QED
  BY <1>4 DEF AdapterInv, Settled

\* Sending a call, and noting the prior value, keeps the invariant.
LEMMA SendInv ==
  ASSUME AdapterInv, NEW by \in {"tx", "other"}, NEW i \in ids, NEW d \in Document \cup {NoDoc}, Send(by, i, d)
  PROVE  AdapterInv'
<1> DEFINE c == [at |-> "sent", id |-> i, doc |-> d]
<1> USE DEF AdapterInv, Send
<1>1. c \in Calls' /\ Sent(c)'
  BY DEF Calls, Sent
<1>2. call' = [call EXCEPT ![by] = c]
  OBVIOUS
<1> HIDE DEF c
<1>3. call' \in [{"tx", "other"} -> Calls']
  BY <1>1, <1>2 DEF AdapterTypeOK, Calls
<1>4. \A b \in {"tx", "other"} : Sent(call[b])'
  BY <1>1, <1>2 DEF AdapterTypeOK, Sent
<1>5. [id |-> i, prior |-> Read(i, row[i])] \in Entries
  BY ReadKept DEF RowsKeep, Entries
<1>6. Captured(i) \in Seq(Entries)
  BY <1>5 DEF Captured, AdapterTypeOK, Transactions
<1>7. tx' \in Transactions /\ tx'.at = tx.at /\ tx'.before = tx.before
  BY <1>6 DEF AdapterTypeOK, Transactions
<1>8. tx' \in Transactions'
  BY <1>7 DEF Transactions, Entries
<1>9. walk' \in Walks'
  BY DEF Walks, AdapterTypeOK
<1>10. AdapterTypeOK'
  BY <1>3, <1>4, <1>7, <1>8, <1>9 DEF AdapterTypeOK
<1>11. RowsKeep'
  BY DEF RowsKeep, Keeps, Stored, Typed
<1>12. BeforeKeeps'
  BY <1>7, BeforeStays
<1> QED
  BY <1>10, <1>11, <1>12

\* MySQL's SELECT keeps the invariant.
LEMMA SelectInv ==
  ASSUME AdapterInv, NEW by \in {"tx", "other"}, Select(by)
  PROVE  AdapterInv'
<1>c. PICK c : c = [call[by] EXCEPT !.at = IF row[call[by].id] = NoRow THEN "missing" ELSE "found"]
  OBVIOUS
<1> USE DEF AdapterInv, Select
<1>0. call[by] \in Calls /\ call[by].id \in ids /\ call[by].doc \in Document
  BY DEF AdapterTypeOK, Sent, Calls
<1>1. c \in Calls' /\ Sent(c)'
  BY <1>0, <1>c DEF Calls, Sent
<1>2. call' = [call EXCEPT ![by] = c]
  BY <1>c
<1>3. call' \in [{"tx", "other"} -> Calls']
  BY <1>1, <1>2 DEF AdapterTypeOK, Calls
<1>4. \A b \in {"tx", "other"} : Sent(call[b])'
  BY <1>1, <1>2 DEF AdapterTypeOK, Sent
<1>8. tx' \in Transactions' /\ walk' \in Walks'
  BY DEF AdapterTypeOK, Transactions, Entries, Walks
<1>10. AdapterTypeOK'
  BY <1>3, <1>4, <1>8 DEF AdapterTypeOK
<1>11. RowsKeep'
  BY DEF RowsKeep, Keeps, Stored, Typed
<1>12. BeforeKeeps'
  BY BeforeStays
<1> QED
  BY <1>10, <1>11, <1>12

\* So does every statement that takes effect.
LEMMA AnswerInv ==
  ASSUME AdapterInv, NEW by \in {"tx", "other"}, Put(by) \/ Update(by) \/ Insert(by) \/ Delete(by)
  PROVE  AdapterInv'
<1>1. Effect /\ call' = [call EXCEPT ![by] = Idle]
  BY DEF AdapterInv, Effect, Put, Update, Insert, Delete
<1>2. call[by].at # "idle" /\ call[by].id \in ids /\ (call[by].doc \in Document \/ Delete(by))
  BY DEF AdapterInv, AdapterTypeOK, Sent, Calls, Put, Update, Insert, Delete
<1>3. \/ Stays(by, TRUE)
      \/ Takes(by, call[by].id, call[by].doc) /\ call[by].doc \in Document
      \/ DeleteEffect(by, call[by].id)
  BY <1>2 DEF Put, Update, Insert, Delete, DeleteEffect
<1>4. Settled
  BY <1>1, <1>2, <1>3, StaysSettles, TakesSettles, DeleteSettles
<1> QED
  BY <1>1, <1>4, SettledInv DEF Effect

\* No member of F is a proper part of T.
Minimal(T, F) == \A U \in F : U \subseteq T => U = T

\* Some member of a set of subsets of a finite set has no proper part in it.
LEMMA SmallestSubset ==
  ASSUME NEW S, IsFiniteSet(S), NEW F, F \subseteq SUBSET S, F # {}
  PROVE  \E T \in F : Minimal(T, F)
<1>1. IsWellFoundedOn(StrictSubsetOrdering(S), FiniteSubsetsOf(S))
  BY FS_StrictSubsetOrderingWellFounded
<1>2. F \subseteq FiniteSubsetsOf(S)
  BY FS_Subset DEF FiniteSubsetsOf
<1>3. PICK T \in F : \A U \in F : ~ (<<U, T>> \in StrictSubsetOrdering(S))
  BY <1>1, <1>2, WFMin
<1>4. ASSUME NEW U \in F, U \subseteq T PROVE U = T
  BY <1>3, <1>4 DEF StrictSubsetOrdering
<1> QED
  BY <1>3, <1>4 DEF Minimal

\* A finite set of naturals has a greatest element, and Greatest names it.
LEMMA GreatestIs ==
  ASSUME NEW S \in SUBSET Nat, IsFiniteSet(S), S # {}
  PROVE  Greatest(S) \in S /\ \A j \in S : j <= Greatest(S)
<1> DEFINE Above(x) == {j \in S : j > x}
           F == {Above(x) : x \in S}
<1>1. F \subseteq SUBSET S /\ F # {}
  OBVIOUS
<1>2. PICK T \in F : Minimal(T, F)
  <2> HIDE DEF F
  <2> QED
    BY <1>1, SmallestSubset
<1>3. PICK m \in S : T = Above(m)
  OBVIOUS
<1>4. ASSUME NEW j \in S, j > m PROVE FALSE
  <2>a. \A k \in S : k > j => k > m
    BY <1>4
  <2>b. Above(j) \subseteq Above(m)
    BY <2>a
  <2>1. Above(j) \subseteq T /\ Above(j) \in F
    BY <2>b, <1>3
  <2>2. j \in T /\ j \notin Above(j)
    BY <1>3, <1>4
  <2> QED
    BY <1>2, <2>1, <2>2 DEF Minimal
<1>5. \A j \in S : j <= m
  BY <1>4
<1> QED
  BY <1>5 DEF Greatest

\* A finite set of naturals has a smallest element.
LEMMA SmallestIs ==
  ASSUME NEW S \in SUBSET Nat, IsFiniteSet(S), S # {}
  PROVE  \E m \in S : \A j \in S : m <= j
<1> DEFINE Under(x) == {j \in S : j < x}
           F == {Under(x) : x \in S}
<1>1. F \subseteq SUBSET S /\ F # {}
  OBVIOUS
<1>2. PICK T \in F : Minimal(T, F)
  <2> HIDE DEF F
  <2> QED
    BY <1>1, SmallestSubset
<1>3. PICK m \in S : T = Under(m)
  OBVIOUS
<1>4. ASSUME NEW j \in S, j < m PROVE FALSE
  <2>a. \A k \in S : k < j => k < m
    BY <1>4
  <2>b. Under(j) \subseteq Under(m)
    BY <2>a
  <2>1. Under(j) \subseteq T /\ Under(j) \in F
    BY <2>b, <1>3
  <2>2. j \in T /\ j \notin Under(j)
    BY <1>3, <1>4
  <2> QED
    BY <1>2, <2>1, <2>2 DEF Minimal
<1> QED
  BY <1>4

\* A query that asks for one row more than a page and does not get it has read every row.
LEMMA FirstRowsAll ==
  ASSUME NEW S \in SUBSET Nat, IsFiniteSet(S), NEW n \in Nat, Cardinality(FirstRows(S, n + 1)) <= n
  PROVE  FirstRows(S, n + 1) = S
<1> DEFINE F == FirstRows(S, n + 1)
           Rest == S \ F
<1>1. F \subseteq S /\ IsFiniteSet(F) /\ IsFiniteSet(Rest)
  BY FS_Subset, FS_Difference DEF FirstRows
<1>2. SUFFICES ASSUME Rest # {} PROVE FALSE
  BY <1>1
<1>3. PICK m \in Rest : \A j \in Rest : m <= j
  BY <1>1, <1>2, SmallestIs
<1> DEFINE Under == {j \in S : j < m}
<1>4. Under \subseteq F
  <2>1. ASSUME NEW j \in Under, j \notin F PROVE FALSE
    <3>1. j \in Rest /\ j \in Nat /\ m \in Nat /\ j < m
      BY <2>1
    <3> QED
      BY <3>1, <1>3
  <2> QED
    BY <2>1
<1>5. Cardinality(Under) <= Cardinality(F) /\ Cardinality(F) \in Nat /\ Cardinality(Under) \in Nat
  BY <1>1, <1>4, FS_Subset, FS_CardinalityType
<1>6. m \in F
  BY <1>5, <1>3 DEF FirstRows
<1> QED
  BY <1>3, <1>6

\* A page leaves out no row below one that it has.
LEMMA FirstRowsInOrder ==
  ASSUME NEW S \in SUBSET Nat, IsFiniteSet(S), NEW n \in Nat,
         NEW m \in FirstRows(FirstRows(S, n + 1), n), NEW i \in S, i < m
  PROVE  i \in FirstRows(FirstRows(S, n + 1), n)
<1> DEFINE F == FirstRows(S, n + 1)
<1>1. F \subseteq S /\ IsFiniteSet(F) /\ m \in F
  BY FS_Subset DEF FirstRows
<1>2. {j \in S : j < i} \subseteq {j \in S : j < m} /\ {j \in F : j < i} \subseteq {j \in F : j < m}
  <2> HIDE DEF F
  <2>1. m \in Nat /\ i \in Nat
    BY <1>1
  <2>2. \A j \in Nat : j < i => j < m
    BY <2>1
  <2> QED
    BY <1>1, <2>2
<1>3. /\ IsFiniteSet({j \in S : j < m}) /\ IsFiniteSet({j \in F : j < m})
  BY <1>1, FS_Subset
<1>4. /\ Cardinality({j \in S : j < i}) <= Cardinality({j \in S : j < m})
      /\ Cardinality({j \in F : j < i}) <= Cardinality({j \in F : j < m})
      /\ Cardinality({j \in S : j < i}) \in Nat /\ Cardinality({j \in S : j < m}) \in Nat
      /\ Cardinality({j \in F : j < i}) \in Nat /\ Cardinality({j \in F : j < m}) \in Nat
  BY <1>2, <1>3, FS_Subset, FS_CardinalityType
<1>5. Cardinality({j \in S : j < m}) < n + 1 /\ Cardinality({j \in F : j < m}) < n
  BY DEF FirstRows
<1>6. i \in F
  BY <1>4, <1>5 DEF FirstRows
<1> QED
  BY <1>4, <1>5, <1>6 DEF FirstRows

\* What matches a query, told by the documents; what the reader has not seen lies ahead of it.
Wanted(q) == {i \in ids : TableOf[i] = q[1] /\ plain[i] # NoDoc /\ (q[2] = "any" \/ FieldOf(plain[i], q[2]) = q[3])}
WalkCovers ==
    walk.at = "walking" => /\ walk.due \subseteq Wanted(walk.query)
                           /\ \A i \in walk.due : i \in walk.seen \/ i > walk.after

\* The ids in use are finitely many positive numbers.
LEMMA IdsFinite ==
  ASSUME AdapterTypeOK
  PROVE  ids \subseteq Nat \ {0} /\ IsFiniteSet(ids) /\ \A i \in ids : Docs[i] \subseteq Document
BY AdaptersAssumption DEF AdapterTypeOK

\* Beginning a transaction keeps the invariant.
LEMMA BeginInv ==
  ASSUME AdapterInv, BeginTx
  PROVE  AdapterInv'
<1> USE DEF AdapterInv, BeginTx
<1>1. PICK a \in BOOLEAN : a = (call["other"] = Idle)
  OBVIOUS
<1>2. <<>> \in Seq(Entries)
  OBVIOUS
<1>3. tx' \in Transactions /\ tx'.at = "open" /\ tx'.before = row
  BY <1>1, <1>2 DEF Transactions, AdapterTypeOK
<1>4. tx' \in Transactions' /\ call' \in [{"tx", "other"} -> Calls'] /\ walk' \in Walks'
  BY <1>3 DEF Transactions, Entries, AdapterTypeOK, Calls, Walks
<1>5. \A by \in {"tx", "other"} : Sent(call[by])'
  BY DEF AdapterTypeOK, Sent
<1>6. AdapterTypeOK'
  BY <1>3, <1>4, <1>5 DEF AdapterTypeOK
<1>7. RowsKeep'
  BY DEF RowsKeep, Keeps, Stored, Typed
<1>8. \A i \in ids : Keeps(i, row[i], Read(i, row[i]))
  BY ReadKept DEF RowsKeep
<1>9. BeforeKeeps'
  BY <1>3, <1>8 DEF BeforeKeeps, Keeps, Stored, Typed, Read
<1> QED
  BY <1>6, <1>7, <1>9

\* So do committing, throwing and the end of an undo.
LEMMA EndInv ==
  ASSUME AdapterInv, UNCHANGED <<backend, ids, row, call, walk, plain>>,
         \/ tx' = NoTx
         \/ tx.at = "open" /\ tx' = [tx EXCEPT !.at = "undo"]
  PROVE  AdapterInv'
<1> USE DEF AdapterInv
<1>1. NoTx \in Transactions /\ NoTx.at = "none"
  BY DEF NoTx, Transactions
<1>2. tx' \in Transactions /\ (tx'.at # "none" => tx.at # "none" /\ tx'.before = tx.before)
  <2>1. CASE tx' = NoTx
    BY <2>1, <1>1
  <2>2. CASE tx.at = "open" /\ tx' = [tx EXCEPT !.at = "undo"]
    BY <2>2 DEF AdapterTypeOK, Transactions
  <2> QED
    BY <2>1, <2>2
<1>4. tx' \in Transactions' /\ call' \in [{"tx", "other"} -> Calls'] /\ walk' \in Walks'
  BY <1>2 DEF Transactions, Entries, AdapterTypeOK, Calls, Walks
<1>5. \A by \in {"tx", "other"} : Sent(call[by])'
  BY DEF AdapterTypeOK, Sent
<1>6. AdapterTypeOK'
  BY <1>2, <1>4, <1>5 DEF AdapterTypeOK
<1>7. RowsKeep'
  BY DEF RowsKeep, Keeps, Stored, Typed
<1>8. BeforeKeeps'
  BY <1>2 DEF BeforeKeeps, Keeps, Stored, Typed, Read
<1> QED
  BY <1>6, <1>7, <1>8

\* SQLite's rollback brings back rows and documents that were in step.
LEMMA RollbackInv ==
  ASSUME AdapterInv, Rollback
  PROVE  AdapterInv'
<1> USE DEF AdapterInv, Rollback
<1>1. NoTx \in Transactions /\ NoTx.at = "none"
  BY DEF NoTx, Transactions
<1>2. /\ \A i \in ids : Keeps(i, tx.before[i], Read(i, tx.before[i]))
      /\ tx.before \in [ids -> Rows]
  BY DEF BeforeKeeps, AdapterTypeOK
<1>3. row' \in [ids -> Rows] /\ plain' \in [ids -> Document \cup {NoDoc}]
  BY <1>2, ReadKept
<1>4. /\ tx' \in Transactions' /\ call' \in [{"tx", "other"} -> Calls'] /\ walk' \in Walks'
  BY <1>1, StillDueTypes DEF Transactions, Entries, AdapterTypeOK, Calls
<1>5. \A by \in {"tx", "other"} : Sent(call[by])'
  BY DEF AdapterTypeOK, Sent
<1>6. AdapterTypeOK'
  BY <1>1, <1>3, <1>4, <1>5 DEF AdapterTypeOK
<1>7. \A i \in ids : Keeps(i, row'[i], plain'[i])
  BY <1>2
<1>8. RowsKeep'
  BY <1>7 DEF RowsKeep, Keeps, Stored, Typed
<1>9. BeforeKeeps'
  BY <1>1 DEF BeforeKeeps
<1> QED
  BY <1>6, <1>8, <1>9

\* Sending a prior value keeps the invariant.
LEMMA UndoNextInv ==
  ASSUME AdapterInv, UndoNext
  PROVE  AdapterInv'
<1> USE DEF AdapterInv, UndoNext
<1>1. tx.journal \in Seq(Entries) /\ tx.journal # <<>>
  BY DEF AdapterTypeOK, Transactions
<1>2. Head(tx.journal) \in Entries /\ Tail(tx.journal) \in Seq(Entries)
  BY <1>1
<1>c. PICK c : c = [at |-> "sent", id |-> Head(tx.journal).id, doc |-> Head(tx.journal).prior]
  OBVIOUS
<1>3. c \in Calls' /\ Sent(c)'
  BY <1>c, <1>2 DEF Calls, Sent, Entries
<1>4. call' = [call EXCEPT !["tx"] = c]
  BY <1>c
<1>5. call' \in [{"tx", "other"} -> Calls']
  BY <1>3, <1>4 DEF AdapterTypeOK, Calls
<1>6. \A by \in {"tx", "other"} : Sent(call[by])'
  BY <1>3, <1>4 DEF AdapterTypeOK, Sent
<1>7. tx' \in Transactions /\ tx'.at = tx.at /\ tx'.before = tx.before
  BY <1>2 DEF AdapterTypeOK, Transactions
<1>8. tx' \in Transactions' /\ walk' \in Walks'
  BY <1>7 DEF Transactions, Entries, AdapterTypeOK, Walks
<1>9. AdapterTypeOK'
  BY <1>5, <1>6, <1>7, <1>8 DEF AdapterTypeOK
<1>10. RowsKeep'
  BY DEF RowsKeep, Keeps, Stored, Typed
<1>11. BeforeKeeps'
  BY <1>7, BeforeStays
<1> QED
  BY <1>9, <1>10, <1>11

\* A new walk has everything ahead of it.
LEMMA StartWalkTypes ==
  ASSUME AdapterInv, NEW q \in Filters, StartWalk(q)
  PROVE  walk' \in Walks' /\ WalkCovers' /\ WalkIsComplete'
<1> USE DEF AdapterInv, StartWalk
<1>1. walk' = [at |-> "walking", query |-> q, after |-> 0, seen |-> {}, due |-> Wanted(q)]
  BY DEF Wanted
<1>2. Wanted(q) \subseteq ids
  BY DEF Wanted
<1> HIDE DEF StartWalk
<1>3. walk' \in Walks /\ walk'.at = "walking" /\ walk'.query = q /\ walk'.due = Wanted(q) /\ walk'.after = 0
  BY <1>1, <1>2 DEF Walks
<1>4. walk' \in Walks' /\ Wanted(q)' = Wanted(q)
  BY <1>3 DEF StartWalk, Walks, Wanted
<1>5. \A i \in walk'.due : i > 0
  BY <1>2, <1>3, IdsFinite
<1> QED
  BY <1>3, <1>4, <1>5 DEF WalkCovers, WalkIsComplete

\* A page brings in what it skips past, and the last page all that is left.
LEMMA ReadPageTypes ==
  ASSUME AdapterInv, WalkCovers, ReadPage
  PROVE  walk' \in Walks' /\ WalkCovers' /\ WalkIsComplete'
<1> DEFINE S == {i \in Matching(row, walk.query) : i > walk.after}
           all == Fetched(S)
           more == Cardinality(all) > Limit
           items == IF more THEN FirstRows(all, Limit) ELSE all
<1> USE DEF AdapterInv
<1>1. S \subseteq ids /\ S \in SUBSET Nat /\ IsFiniteSet(S) /\ Limit \in Nat \ {0}
  <2>1. S \subseteq ids
    BY DEF Matching
  <2> QED
    BY <2>1, IdsFinite, FS_Subset, AdaptersAssumption
<1>2. /\ all \subseteq S /\ items \subseteq S /\ items \subseteq Nat
      /\ IsFiniteSet(all) /\ IsFiniteSet(items) /\ Cardinality(all) \in Nat
  <2>1. all \subseteq S /\ items \subseteq S
    BY DEF Fetched, FirstRows
  <2> HIDE DEF S, items, all
  <2> QED
    BY <1>1, <2>1, FS_Subset, FS_CardinalityType
<1>3. ASSUME more PROVE items # {}
  <2>1. all # {}
    BY <1>1, <1>2, <1>3, FS_EmptySet
  <2>2. PICK m \in all : \A j \in all : m <= j
    <3> HIDE DEF all
    <3> QED
      BY <1>1, <1>2, <2>1, SmallestIs
  <2>3. {j \in all : j < m} = {}
    <3> HIDE DEF all
    <3>1. m \in Nat /\ \A j \in all : j \in Nat
      BY <1>1, <1>2, <2>2
    <3>2. \A j \in all : ~ (j < m)
      BY <3>1, <2>2
    <3> QED
      BY <3>2
  <2>4. Cardinality({j \in all : j < m}) < Limit
    BY <2>3, <1>1, FS_EmptySet
  <2>5. m \in FirstRows(all, Limit)
    BY <2>2, <2>4 DEF FirstRows
  <2> QED
    BY <1>3, <2>5
<1>4. ASSUME ~more PROVE items = S
  BY <1>1, <1>2, <1>4, FirstRowsAll DEF Fetched
<1> DEFINE last == Greatest(items)
<1>5. ASSUME more PROVE last \in Nat /\ \A i \in S : i \in items \/ i > last
  <2>1. last \in items /\ items \in SUBSET Nat
    <3> HIDE DEF items
    <3> QED
      BY <1>2, <1>3, <1>5, GreatestIs
  <2>2. ASSUME NEW i \in S, i < last PROVE i \in items
    BY <2>1, <2>2, <1>1, <1>5, FirstRowsInOrder DEF Fetched
  <2>3. \A i \in S : i \in Nat /\ last \in Nat
    BY <2>1, <1>1
  <2> HIDE DEF S, items, last
  <2> QED
    BY <2>1, <2>2, <2>3
<1>6. walk.at = "walking" /\ UNCHANGED <<backend, ids, row, call, tx, plain>>
      /\ walk' = [walk EXCEPT !.seen = @ \cup items, !.at = IF more THEN "walking" ELSE "done",
                              !.after = IF more THEN last ELSE 0]
  BY DEF ReadPage
<1>7. walk.due \subseteq Wanted(walk.query) /\ \A i \in walk.due : i \in walk.seen \/ i > walk.after
  BY <1>6 DEF WalkCovers
<1>8. Wanted(walk.query) \subseteq Matching(row, walk.query)
  <2> SUFFICES ASSUME NEW i \in Wanted(walk.query) PROVE i \in Matching(row, walk.query)
    OBVIOUS
  <2>1. i \in ids /\ Keeps(i, row[i], plain[i])
    BY DEF Wanted, RowsKeep
  <2>2. Read(i, row[i]) = plain[i] /\ (row[i] = NoRow <=> plain[i] = NoDoc)
    BY <2>1, ReadKept
  <2> QED
    BY <2>1, <2>2 DEF Wanted, Matching, Asked
<1>9. \A i \in walk.due : i \in walk.seen \/ i \in S
  BY <1>7, <1>8
<1> HIDE DEF S, all, more, items, last
<1>10. PICK a : a = IF more THEN "walking" ELSE "done"
  OBVIOUS
<1>11. PICK n \in Nat : n = IF more THEN last ELSE 0
  BY <1>5
<1>12. walk' \in Walks /\ walk'.at = a /\ walk'.seen = walk.seen \cup items /\ walk'.after = n
       /\ walk'.query = walk.query /\ walk'.due = walk.due
  <2>1. walk \in Walks /\ items \subseteq ids /\ a \in {"none", "walking", "done"}
    BY <1>1, <1>2, <1>10 DEF AdapterTypeOK
  <2>2. walk' = [walk EXCEPT !.seen = @ \cup items, !.at = a, !.after = n]
    BY <1>6, <1>10, <1>11
  <2> QED
    BY <2>1, <2>2 DEF Walks
<1>13. walk' \in Walks' /\ Wanted(walk.query)' = Wanted(walk'.query)
  BY <1>6, <1>12 DEF Walks, Wanted
<1>14. CASE more
  <2>1. WalkCovers'
    BY <1>14, <1>5, <1>6, <1>7, <1>9, <1>10, <1>11, <1>12 DEF WalkCovers, Wanted
  <2> QED
    BY <2>1, <1>10, <1>12, <1>13, <1>14 DEF WalkIsComplete
<1>15. CASE ~more
  <2>1. walk.due \subseteq walk.seen \cup items
    BY <1>15, <1>4, <1>9
  <2> QED
    BY <2>1, <1>10, <1>12, <1>13, <1>15 DEF WalkIsComplete, WalkCovers
<1> QED
  BY <1>14, <1>15

\* Writes between two pages take nothing from what the walk still covers.
LEMMA WalkStays ==
  ASSUME WalkCovers, WalkIsComplete, UNCHANGED ids,
         UNCHANGED <<plain, walk>> \/ (AdapterTypeOK /\ StillDue)
  PROVE  WalkCovers' /\ WalkIsComplete'
<1>1. CASE UNCHANGED <<plain, walk>>
  BY <1>1 DEF WalkCovers, WalkIsComplete, Wanted
<1>2. CASE AdapterTypeOK /\ StillDue
  <2>1. /\ walk'.at = walk.at /\ walk'.query = walk.query /\ walk'.after = walk.after
        /\ walk'.seen = walk.seen
        /\ walk'.due = IF walk.at = "walking" THEN walk.due \cap Answers(walk.query) ELSE walk.due
    BY <1>2, StillDueTypes
  <2>2. Answers(walk.query) = Wanted(walk.query)'
    BY <2>1 DEF Answers, Wanted
  <2> QED
    BY <2>1, <2>2 DEF WalkCovers, WalkIsComplete, Wanted
<1> QED
  BY <1>1, <1>2

\* Who restores what a guarded transaction changed: the rest of its journal, the put that is
\* under way, or nobody because the row is as it was.  The journal holds the values from before.
InJournal(i) == \E n \in DOMAIN tx.journal : tx.journal[n].id = i
PutsBack(i) == tx.at = "undo" /\ call["tx"].at # "idle" /\ call["tx"].id = i
Prior(i) == Read(i, tx.before[i])
Guarded == tx.at # "none" /\ Journaled /\ tx.alone /\ tx.free
UndoRestores ==
    Guarded =>
        /\ \A n \in DOMAIN tx.journal : tx.journal[n].prior = Prior(tx.journal[n].id)
        /\ \A i \in ids : row[i] = tx.before[i] \/ InJournal(i) \/ PutsBack(i)
        /\ tx.at = "open" /\ call["tx"].at # "idle" => InJournal(call["tx"].id)
        /\ tx.at = "undo" /\ call["tx"].at # "idle" => call["tx"].doc = Prior(call["tx"].id)

\* A guarded transaction was guarded before the effect, had it itself and met no constraint.
LEMMA NotedGuard ==
  ASSUME AdapterTypeOK, UNCHANGED <<backend, ids>>, NEW by, NEW acted \in BOOLEAN, Noted(by, acted), Guarded'
  PROVE  Guarded /\ by = "tx" /\ ~acted
<1>1. /\ tx'.at = tx.at /\ (tx'.alone <=> tx.alone /\ (tx.at = "none" \/ by = "tx"))
      /\ (tx'.free <=> tx.free /\ ~acted)
  BY NotedTypes DEF AdapterTypeOK
<1>2. tx'.at # "none" /\ Journaled /\ tx'.alone /\ tx'.free
  BY DEF Guarded, Journaled
<1> QED
  BY <1>1, <1>2, Zenon DEF Guarded

\* An effect of the transaction is on its own row, and an undoing one restores it.
LEMMA EffectRestores ==
  ASSUME AdapterInv, UndoRestores, UNCHANGED <<backend, ids>>, NEW by \in {"tx", "other"}, NEW acted \in BOOLEAN,
         Noted(by, acted), call[by].at # "idle", call' = [call EXCEPT ![by] = Idle],
         ~acted => /\ row' \in [ids -> Rows]
                   /\ \A i \in ids : i # call[by].id => row'[i] = row[i]
                   /\ Keeps(call[by].id, row'[call[by].id], call[by].doc)
  PROVE  UndoRestores'
<1> SUFFICES ASSUME Guarded' PROVE UndoRestores'
  BY DEF UndoRestores
<1> USE DEF AdapterInv
<1>1. Guarded /\ by = "tx" /\ ~acted
  BY NotedGuard
<1>2. tx'.at = tx.at /\ tx'.journal = tx.journal /\ tx'.before = tx.before
  BY NotedTypes DEF AdapterTypeOK
<1>3. call'["tx"].at = "idle"
  BY <1>1 DEF AdapterTypeOK, Idle
<1>4. (\A n \in DOMAIN tx.journal : tx.journal[n].prior = Prior(tx.journal[n].id))'
  BY <1>1, <1>2 DEF UndoRestores, Prior, Read, Typed
<1>5. ASSUME NEW i \in ids, ~InJournal(i) PROVE row'[i] = tx.before[i]
  <2>1. CASE i # call["tx"].id
    BY <1>1, <1>5, <2>1 DEF UndoRestores, PutsBack
  <2>2. CASE i = call["tx"].id
    <3>1. tx.at = "undo"
      BY <1>1, <1>5, <2>2 DEF UndoRestores, Guarded, AdapterTypeOK, Transactions
    <3>2. call["tx"].doc = Prior(i)
      BY <1>1, <2>2, <3>1 DEF UndoRestores
    <3>3. Keeps(i, row'[i], Prior(i)) /\ Keeps(i, tx.before[i], Prior(i))
      BY <1>1, <2>2, <3>1, <3>2 DEF BeforeKeeps, Prior
    <3> QED
      BY <3>3, MarksAreNoDocuments DEF Keeps
  <2> QED
    BY <2>1, <2>2
<1>6. (\A i \in ids : row[i] = tx.before[i] \/ InJournal(i))'
  BY <1>2, <1>5 DEF InJournal
<1> QED
  BY <1>2, <1>3, <1>4, <1>6 DEF UndoRestores

\* Every statement's effect is of that kind.
LEMMA AnswerRestores ==
  ASSUME AdapterInv, UndoRestores, NEW by \in {"tx", "other"}, Put(by) \/ Update(by) \/ Insert(by) \/ Delete(by)
  PROVE  UndoRestores'
<1> USE DEF AdapterInv
<1>1. UNCHANGED <<backend, ids>> /\ call' = [call EXCEPT ![by] = Idle] /\ call[by].at # "idle"
  BY DEF Put, Update, Insert, Delete
<1>2. call[by].id \in ids /\ (call[by].doc \in Document \/ (Delete(by) /\ call[by].doc = NoDoc))
  BY DEF AdapterTypeOK, Sent, Calls, Put, Update, Insert, Delete
<1> DEFINE i == call[by].id
           d == call[by].doc
<1>3. \/ Stays(by, TRUE)
      \/ Takes(by, i, d) /\ d \in Document
      \/ DeleteEffect(by, i) /\ d = NoDoc
  BY <1>2 DEF Put, Update, Insert, Delete, DeleteEffect
<1>4. CASE Stays(by, TRUE)
  BY <1>1, <1>4, EffectRestores DEF Stays
<1>5. CASE Takes(by, i, d) /\ d \in Document
  <2>1. row' \in [ids -> Rows] /\ (\A j \in ids : j # i => row'[j] = row[j]) /\ row'[i] = Stored(i, d)
    BY <1>2, <1>5, ReadStored DEF Takes, Upserted, AdapterTypeOK
  <2>2. Keeps(i, row'[i], d)
    BY <1>5, <2>1 DEF Keeps
  <2>3. Noted(by, FALSE)
    BY <1>5 DEF Takes
  <2> QED
    BY <1>1, <2>1, <2>2, <2>3, EffectRestores
<1>6. CASE DeleteEffect(by, i) /\ d = NoDoc
  <2>1. PICK acted \in BOOLEAN : acted = (Children(i) # {})
    OBVIOUS
  <2>2. Noted(by, acted)
    BY <1>6, <2>1 DEF DeleteEffect
  <2>3. row' \in [ids -> Rows] /\ row'[i] = NoRow
    BY <1>2, <1>6 DEF DeleteEffect, Deleted, Gone, AdapterTypeOK, Rows
  <2>4. ASSUME ~acted PROVE \A j \in ids : j # i => row'[j] = row[j]
    <3>1. Children(i) = {}
      BY <2>1, <2>4
    <3> QED
      BY <1>6, <3>1 DEF DeleteEffect, Deleted, Gone
  <2>5. Keeps(i, row'[i], d)
    BY <1>6, <2>3 DEF Keeps
  <2> QED
    BY <1>1, <2>2, <2>3, <2>4, <2>5, EffectRestores
<1> QED
  BY <1>3, <1>4, <1>5, <1>6

\* A row is in the journal before a write to it is sent.
LEMMA SendRestores ==
  ASSUME AdapterInv, UndoRestores, NEW by \in {"tx", "other"}, NEW i \in ids, NEW d \in Document \cup {NoDoc},
         Send(by, i, d)
  PROVE  UndoRestores'
<1> SUFFICES ASSUME Guarded' PROVE UndoRestores'
  BY DEF UndoRestores
<1> USE DEF AdapterInv
<1>0. UNCHANGED <<backend, ids, row>>
  BY DEF Send
<1>1. CASE by = "other"
  <2>1. UNCHANGED tx /\ call'["tx"] = call["tx"]
    BY <1>1 DEF Send, AdapterTypeOK
  <2>2. Guarded
    BY <1>0, <2>1 DEF Guarded, Journaled
  <2> QED
    BY <1>0, <2>1, <2>2 DEF UndoRestores, Prior, Read, Typed, InJournal, PutsBack
<1>2. CASE by = "tx"
  <2>1. /\ tx.at = "open" /\ call["tx"] = Idle
        /\ tx' = [tx EXCEPT !.journal = IF Journaled THEN Captured(i) ELSE @]
    BY <1>2 DEF Send
  <2>2. Journaled
    BY <1>0 DEF Guarded, Journaled
  <2> DEFINE e == [id |-> i, prior |-> Read(i, row[i])]
  <2>3. e \in Entries /\ e.id = i /\ e.prior = Read(i, row[i])
    BY ReadKept DEF RowsKeep, Entries
  <2>4. Captured(i) = IF InJournal(i) THEN tx.journal ELSE Append(tx.journal, e)
    BY DEF Captured, InJournal
  <2> HIDE DEF e
  <2>5. tx.journal \in Seq(Entries) /\ Captured(i) \in Seq(Entries)
    BY <2>3, <2>4 DEF AdapterTypeOK, Transactions
  <2>6. /\ tx'.at = "open" /\ tx'.before = tx.before /\ tx'.alone = tx.alone /\ tx'.free = tx.free
        /\ tx'.journal = Captured(i)
    BY <2>1, <2>2, <2>5 DEF AdapterTypeOK, Transactions
  <2>7. Guarded
    BY <1>0, <2>6, <2>1, Zenon DEF Guarded, Journaled
  <2>8. call'["tx"].id = i
    BY <1>2 DEF Send, AdapterTypeOK
  <2>9. ~InJournal(i) => row[i] = tx.before[i]
    BY <2>1, <2>7 DEF UndoRestores, PutsBack
  <2>10. CASE InJournal(i)
    <3>1. tx'.journal = tx.journal
      BY <2>4, <2>6, <2>10
    <3> QED
      BY <1>0, <2>1, <2>6, <2>7, <2>8, <2>10, <3>1 DEF UndoRestores, Prior, Read, Typed, InJournal, PutsBack
  <2>11. CASE ~InJournal(i)
    <3>1. /\ tx'.journal = Append(tx.journal, e) /\ DOMAIN tx'.journal = 1..(Len(tx.journal) + 1)
          /\ DOMAIN tx.journal = 1..Len(tx.journal) /\ Len(tx.journal) \in Nat
          /\ tx'.journal[Len(tx.journal) + 1] = e
          /\ \A n \in 1..Len(tx.journal) : tx'.journal[n] = tx.journal[n]
      BY <2>3, <2>4, <2>5, <2>6, <2>11
    <3>2. (InJournal(i))' /\ \A j \in ids : InJournal(j) => InJournal(j)'
      BY <2>3, <3>1 DEF InJournal
    <3>3. e.prior = Read(i, tx.before[i])
      BY <2>3, <2>9, <2>11
    <3>4. ASSUME NEW n \in 1..(Len(tx.journal) + 1)
          PROVE  tx'.journal[n].prior = Read(tx'.journal[n].id, tx.before[tx'.journal[n].id])
      <4>1. CASE n = Len(tx.journal) + 1
        BY <2>3, <3>1, <3>3, <4>1
      <4>2. CASE n \in 1..Len(tx.journal)
        BY <2>7, <3>1, <4>2 DEF UndoRestores, Prior
      <4> QED
        BY <3>1, <4>1, <4>2
    <3>5. (\A n \in DOMAIN tx.journal : tx.journal[n].prior = Prior(tx.journal[n].id))'
      BY <1>0, <2>6, <3>1, <3>4 DEF Prior, Read, Typed
    <3>6. (\A j \in ids : row[j] = tx.before[j] \/ InJournal(j) \/ PutsBack(j))'
      BY <1>0, <2>1, <2>6, <2>7, <3>2 DEF UndoRestores, PutsBack
    <3> QED
      BY <2>6, <2>8, <3>2, <3>5, <3>6 DEF UndoRestores, InJournal
  <2> QED
    BY <2>10, <2>11
<1> QED
  BY <1>1, <1>2

\* A transaction begins with nothing to restore.
LEMMA BeginRestores ==
  ASSUME AdapterInv, BeginTx
  PROVE  UndoRestores'
<1> USE DEF AdapterInv, BeginTx
<1>1. tx'.at = "open" /\ tx'.journal = <<>> /\ tx'.before = row /\ call'["tx"].at = "idle"
  BY DEF Idle
<1>2. DOMAIN tx'.journal = {}
  BY <1>1
<1> QED
  BY <1>1, <1>2 DEF UndoRestores

\* One that ended has nothing to restore.
LEMMA EndRestores ==
  ASSUME UndoRestores, Commit \/ Undone \/ Rollback
  PROVE  UndoRestores'
BY DEF UndoRestores, Guarded, Commit, Undone, Rollback, NoTx

\* The journal has all that changed when the body throws.
LEMMA ThrowRestores ==
  ASSUME AdapterInv, UndoRestores, Throw
  PROVE  UndoRestores'
<1> SUFFICES ASSUME Guarded' PROVE UndoRestores'
  BY DEF UndoRestores
<1> USE DEF AdapterInv, Throw
<1>1. /\ tx'.at = "undo" /\ tx'.journal = tx.journal /\ tx'.before = tx.before
      /\ tx'.alone = tx.alone /\ tx'.free = tx.free
  BY DEF AdapterTypeOK, Transactions
<1>2. Guarded
  BY <1>1, Zenon DEF Guarded, Journaled
<1>3. call["tx"].at = "idle"
  BY DEF Idle
<1> QED
  BY <1>1, <1>2, <1>3 DEF UndoRestores, Prior, Read, Typed, InJournal, PutsBack

\* MySQL's SELECT changes no row.
LEMMA SelectRestores ==
  ASSUME AdapterInv, UndoRestores, NEW by \in {"tx", "other"}, Select(by)
  PROVE  UndoRestores'
<1> SUFFICES ASSUME Guarded' PROVE UndoRestores'
  BY DEF UndoRestores
<1> USE DEF AdapterInv
<1>1. UNCHANGED <<backend, ids, row, tx>>
  BY DEF Select
<1>2. Guarded
  BY <1>1 DEF Guarded, Journaled
<1>3. /\ call'["tx"].id = call["tx"].id /\ call'["tx"].doc = call["tx"].doc
      /\ (call'["tx"].at # "idle" => call["tx"].at # "idle")
      /\ (call["tx"].at # "idle" => call'["tx"].at # "idle")
  BY DEF Select, AdapterTypeOK, Calls
<1> QED
  BY <1>1, <1>2, <1>3 DEF UndoRestores, Prior, Read, Typed, InJournal, PutsBack

\* The next prior value leaves the journal and is on its way.
LEMMA UndoNextRestores ==
  ASSUME AdapterInv, UndoRestores, UndoNext
  PROVE  UndoRestores'
<1> SUFFICES ASSUME Guarded' PROVE UndoRestores'
  BY DEF UndoRestores
<1> USE DEF AdapterInv, UndoNext
<1> DEFINE j == tx.journal
<1>1. j \in Seq(Entries) /\ j # <<>>
  BY DEF AdapterTypeOK, Transactions
<1>2. /\ Len(j) \in Nat \ {0} /\ DOMAIN j = 1..Len(j) /\ Head(j) = j[1] /\ Tail(j) \in Seq(Entries)
      /\ DOMAIN Tail(j) = 1..(Len(j) - 1) /\ \A n \in 1..(Len(j) - 1) : Tail(j)[n] = j[n + 1]
  BY <1>1
<1>3. /\ tx'.at = "undo" /\ tx'.journal = Tail(j) /\ tx'.before = tx.before
      /\ tx'.alone = tx.alone /\ tx'.free = tx.free
  BY <1>2 DEF AdapterTypeOK, Transactions
<1>4. Guarded
  BY <1>3, Zenon DEF Guarded, Journaled
<1>5. call["tx"].at = "idle"
  BY DEF Idle
<1>6. call'["tx"].at = "sent" /\ call'["tx"].id = j[1].id /\ call'["tx"].doc = j[1].prior
  BY <1>2 DEF AdapterTypeOK
<1>7. \A n \in 1..Len(j) : j[n].prior = Prior(j[n].id)
  BY <1>2, <1>4 DEF UndoRestores
<1>8. \A n \in 1..(Len(j) - 1) : Tail(j)[n].prior = Prior(Tail(j)[n].id)
  <2> SUFFICES ASSUME NEW n \in 1..(Len(j) - 1) PROVE Tail(j)[n].prior = Prior(Tail(j)[n].id)
    OBVIOUS
  <2>1. n + 1 \in 1..Len(j)
    BY <1>2
  <2> QED
    BY <1>2, <1>7, <2>1
<1>9. (\A n \in DOMAIN tx.journal : tx.journal[n].prior = Prior(tx.journal[n].id))'
  BY <1>2, <1>3, <1>8 DEF Prior, Read, Typed
<1>10. ASSUME NEW i \in ids PROVE (row[i] = tx.before[i] \/ InJournal(i) \/ PutsBack(i))'
  <2>1. row[i] = tx.before[i] \/ \E n \in 1..Len(j) : j[n].id = i
    BY <1>2, <1>4, <1>5 DEF UndoRestores, PutsBack, InJournal
  <2>2. CASE row[i] = tx.before[i]
    BY <1>3, <2>2
  <2>3. ASSUME NEW n \in 1..Len(j), j[n].id = i PROVE (InJournal(i) \/ PutsBack(i))'
    <3>1. CASE n = 1
      BY <1>3, <1>6, <2>3, <3>1 DEF PutsBack
    <3>2. CASE n # 1
      <4>1. n - 1 \in 1..(Len(j) - 1) /\ Tail(j)[n - 1] = j[n]
        BY <1>2, <3>2
      <4> QED
        BY <1>2, <1>3, <2>3, <4>1 DEF InJournal
    <3> QED
      BY <3>1, <3>2
  <2> QED
    BY <2>1, <2>2, <2>3
<1>11. (call["tx"].doc = Prior(call["tx"].id))'
  BY <1>2, <1>3, <1>6, <1>7 DEF Prior, Read, Typed
<1> QED
  BY <1>3, <1>9, <1>10, <1>11 DEF UndoRestores

\* All of it together.
StorageHolds == AdapterInv /\ UndoRestores /\ WalkCovers /\ WalkIsComplete

\* It holds of an empty storage.
LEMMA StorageInitHolds == AdapterInit => StorageHolds
<1> SUFFICES ASSUME AdapterInit PROVE StorageHolds
  OBVIOUS
<1>1. AdapterInv
  BY AdapterInitInv
<1>2. tx.at = "none" /\ walk.at = "none"
  BY DEF AdapterInit, NoTx, NoWalk
<1> QED
  BY <1>1, <1>2 DEF StorageHolds, UndoRestores, Guarded, WalkCovers, WalkIsComplete

\* A reader's step touches nothing but the walk.
LEMMA ReaderInv ==
  ASSUME AdapterInv, UndoRestores, UNCHANGED <<backend, ids, row, call, tx, plain>>, walk' \in Walks'
  PROVE  AdapterInv' /\ UndoRestores'
<1> USE DEF AdapterInv
<1>1. tx' \in Transactions' /\ call' \in [{"tx", "other"} -> Calls']
  BY DEF AdapterTypeOK, Transactions, Entries, Calls
<1>2. \A by \in {"tx", "other"} : Sent(call[by])'
  BY DEF AdapterTypeOK, Sent
<1>3. AdapterTypeOK'
  BY <1>1, <1>2 DEF AdapterTypeOK
<1>4. RowsKeep'
  BY DEF RowsKeep, Keeps, Stored, Typed
<1>5. BeforeKeeps'
  BY BeforeStays
<1>6. UndoRestores'
  BY DEF UndoRestores, Guarded, Journaled, Prior, Read, Typed, InJournal, PutsBack
<1> QED
  BY <1>3, <1>4, <1>5, <1>6

\* Every step keeps it.
LEMMA StorageNextHolds == StorageHolds /\ [AdapterNext]_adapterVars => StorageHolds'
<1> SUFFICES ASSUME StorageHolds, [AdapterNext]_adapterVars PROVE StorageHolds'
  OBVIOUS
<1>0. AdapterInv /\ UndoRestores /\ WalkCovers /\ WalkIsComplete /\ AdapterTypeOK
  BY DEF StorageHolds, AdapterInv
<1>1. ASSUME NEW by \in {"tx", "other"}, NEW i \in ids, NEW d \in Docs[i] \cup {NoDoc}, Send(by, i, d)
      PROVE  StorageHolds'
  <2>1. d \in Document \cup {NoDoc}
    BY <1>0, IdsFinite
  <2>2. UNCHANGED <<ids, plain, walk>>
    BY <1>1 DEF Send
  <2> QED
    BY <1>0, <1>1, <2>1, <2>2, SendInv, SendRestores, WalkStays DEF StorageHolds
<1>2. ASSUME NEW by \in {"tx", "other"}, Put(by) \/ Update(by) \/ Insert(by) \/ Delete(by)
      PROVE  StorageHolds'
  <2>1. UNCHANGED ids /\ (UNCHANGED <<plain, walk>> \/ StillDue)
    BY <1>2 DEF Put, Update, Insert, Delete, Stays, Takes
  <2> QED
    BY <1>0, <1>2, <2>1, AnswerInv, AnswerRestores, WalkStays DEF StorageHolds
<1>3. ASSUME NEW by \in {"tx", "other"}, Select(by) PROVE StorageHolds'
  <2>1. UNCHANGED <<ids, plain, walk>>
    BY <1>3 DEF Select
  <2> QED
    BY <1>0, <1>3, <2>1, SelectInv, SelectRestores, WalkStays DEF StorageHolds
<1>4. CASE BeginTx
  <2>1. UNCHANGED <<ids, plain, walk>>
    BY <1>4 DEF BeginTx
  <2> QED
    BY <1>0, <1>4, <2>1, BeginInv, BeginRestores, WalkStays DEF StorageHolds
<1>5. CASE Commit \/ Undone
  <2>1. UNCHANGED <<backend, ids, row, call, walk, plain>> /\ tx' = NoTx
    BY <1>5 DEF Commit, Undone
  <2> QED
    BY <1>0, <1>5, <2>1, EndInv, EndRestores, WalkStays DEF StorageHolds
<1>6. CASE Throw
  <2>1. UNCHANGED <<backend, ids, row, call, walk, plain>> /\ tx.at = "open" /\ tx' = [tx EXCEPT !.at = "undo"]
    BY <1>6 DEF Throw
  <2> QED
    BY <1>0, <1>6, <2>1, EndInv, ThrowRestores, WalkStays DEF StorageHolds
<1>7. CASE Rollback
  <2>1. UNCHANGED ids /\ StillDue
    BY <1>7 DEF Rollback
  <2> QED
    BY <1>0, <1>7, <2>1, RollbackInv, EndRestores, WalkStays DEF StorageHolds
<1>8. CASE UndoNext
  <2>1. UNCHANGED <<ids, plain, walk>>
    BY <1>8 DEF UndoNext
  <2> QED
    BY <1>0, <1>8, <2>1, UndoNextInv, UndoNextRestores, WalkStays DEF StorageHolds
<1>9. ASSUME NEW q \in Filters, StartWalk(q) PROVE StorageHolds'
  <2>1. UNCHANGED <<backend, ids, row, call, tx, plain>>
    BY <1>9 DEF StartWalk
  <2> QED
    BY <1>0, <1>9, <2>1, StartWalkTypes, ReaderInv DEF StorageHolds
<1>10. CASE ReadPage
  <2>1. UNCHANGED <<backend, ids, row, call, tx, plain>>
    BY <1>10 DEF ReadPage
  <2> QED
    BY <1>0, <1>10, <2>1, ReadPageTypes, ReaderInv DEF StorageHolds
<1>11. CASE UNCHANGED adapterVars
  <2>1. UNCHANGED <<backend, ids, row, call, tx, plain, walk>>
    BY <1>11 DEF adapterVars
  <2>2. walk' \in Walks'
    BY <1>0, <2>1 DEF AdapterTypeOK, Walks
  <2> QED
    BY <1>0, <2>1, <2>2, ReaderInv, WalkStays DEF StorageHolds
<1> QED
  BY <1>1, <1>2, <1>3, <1>4, <1>5, <1>6, <1>7, <1>8, <1>9, <1>10, <1>11 DEF AdapterNext

\* However two callers, a transaction and a reader interleave (the put, delete, query and
\* transaction of each adapter), rows and documents stay in step, the journal restores what a lone
\* transaction changed, and what a walk has not seen lies ahead of it.
THEOREM AdapterInvHolds == AdapterSpec => []StorageHolds
BY StorageInitHolds, StorageNextHolds, PTL DEF AdapterSpec

\* A document reads as it was put (typed-mapper.ts docToRow, rowToDoc; the put and delete of each
\* adapter), on each backend and for any documents, collections, references and unique fields.
THEOREM DocumentsSurvive == AdapterSpec => []SameAsDocuments
<1>1. StorageHolds => SameAsDocuments
  BY ReadKept DEF StorageHolds, AdapterInv, RowsKeep, SameAsDocuments
<1> QED
  BY <1>1, AdapterInvHolds, PTL

\* A walk that ends has seen every document that was there and matched throughout (the query of
\* each adapter), for any page size, filter and writes between the pages.
THEOREM WalksAreComplete == AdapterSpec => []WalkIsComplete
<1>1. StorageHolds => WalkIsComplete
  BY DEF StorageHolds
<1> QED
  BY <1>1, AdapterInvHolds, PTL

\* A transaction that throws leaves everything as it was (transaction.ts journaledTransaction, sqlite
\* transaction), however many writes it made, if nobody else wrote and no constraint acted in it.
THEOREM TransactionsAreUndone == AdapterSpec => TransactionsAreWhole
<1>1. ASSUME StorageHolds, [AdapterNext]_adapterVars, tx.at = "undo", tx'.at = "none", tx.alone, tx.free
      PROVE  row' = tx.before
  <2> USE DEF StorageHolds, AdapterInv
  <2>1. Undone \/ Rollback
    <3>1. NoTx.at = "none"
      BY DEF NoTx
    <3>2. ASSUME NEW by \in {"tx", "other"}, Put(by) \/ Update(by) \/ Insert(by) \/ Delete(by)
          PROVE  FALSE
      <4>1. PICK acted \in BOOLEAN : Noted(by, acted)
        BY <3>2 DEF Put, Update, Insert, Delete, Stays, Takes
      <4> QED
        BY <1>1, <4>1, NotedTypes DEF AdapterTypeOK
    <3>3. ASSUME NEW by \in {"tx", "other"}, NEW i \in ids, NEW d \in Docs[i] \cup {NoDoc}, Send(by, i, d)
          PROVE  FALSE
      BY <1>1, <3>3 DEF Send
    <3>4. ASSUME NEW q \in Filters, StartWalk(q) PROVE FALSE
      BY <1>1, <3>4 DEF StartWalk
    <3>5. ASSUME UndoNext PROVE FALSE
      BY <1>1, <3>5 DEF UndoNext, AdapterTypeOK, Transactions
    <3> QED
      BY <1>1, <3>1, <3>2, <3>3, <3>4, <3>5 DEF AdapterNext, Select, BeginTx, Commit, Throw, ReadPage, adapterVars
  <2>2. CASE Rollback
    BY <2>2 DEF Rollback
  <2>3. CASE Undone
    <3>1. Guarded /\ tx.journal = <<>> /\ call["tx"].at = "idle" /\ row' = row
      BY <1>1, <2>3 DEF Guarded, Undone, Idle
    <3>2. \A i \in ids : row[i] = tx.before[i]
      BY <1>1, <3>1 DEF UndoRestores, InJournal, PutsBack
    <3>3. row \in [ids -> Rows] /\ tx.before \in [ids -> Rows]
      BY <1>1 DEF AdapterTypeOK
    <3> QED
      BY <3>1, <3>2, <3>3
  <2> QED
    BY <2>1, <2>2, <2>3
<1>2. StorageHolds /\ [AdapterNext]_adapterVars
        => [tx.at = "undo" /\ tx'.at = "none" /\ tx.alone /\ tx.free => row' = tx.before]_adapterVars
  BY <1>1
<1> QED
  BY <1>2, AdapterInvHolds, PTL DEF AdapterSpec, TransactionsAreWhole

(***************************************************************************)
(* The render cache of the Site.                                           *)
(***************************************************************************)
\* There are five slugs.
LEMMA SlugsFinite == IsFiniteSet(Slugs) /\ Cardinality(Slugs) \in Nat
<1> DEFINE a == {} \cup {"home"} b == a \cup {"about"} c == b \cup {"blog"} d == c \cup {"contact"}
<1>1. IsFiniteSet(a)
  BY FS_EmptySet, FS_AddElement
<1>2. IsFiniteSet(b)
  BY <1>1, FS_AddElement
<1>3. IsFiniteSet(c)
  BY <1>2, FS_AddElement
<1>4. IsFiniteSet(d)
  BY <1>3, FS_AddElement
<1>5. IsFiniteSet(d \cup {"post"})
  BY <1>4, FS_AddElement
<1>6. Slugs = d \cup {"post"}
  BY DEF Slugs
<1> HIDE DEF d
<1> QED
  BY <1>5, <1>6, FS_CardinalityType

\* A document has some bytes, and no more than one that lists every page.
LEMMA BytesAre ==
  ASSUME NEW html
  PROVE  Bytes(html) \in Nat /\ Bytes(html) >= 1 /\ Bytes(html) <= 1 + Cardinality(Slugs)
<1>1. IsFiniteSet(Slugs) /\ Cardinality(Slugs) \in Nat
  BY SlugsFinite
<1>2. Listed(html) \in SUBSET Slugs
  BY DEF Listed
<1>3. Cardinality(Listed(html)) \in Nat /\ Cardinality(Listed(html)) <= Cardinality(Slugs)
  BY <1>1, <1>2, FS_Subset, FS_CardinalityType
<1> QED
  BY <1>1, <1>3 DEF Bytes

\* What finitely many entries occupy is finite.
LEMMA OccupiedIsFinite ==
  ASSUME NEW entries, NEW S, IsFiniteSet(S)
  PROVE  IsFiniteSet(Occupied(entries, S)) /\ SizeOf(entries, S) \in Nat
<1> DEFINE N == 1 + Cardinality(Slugs)
<1>1. N \in Nat
  BY SlugsFinite
<1>2. \A p \in S : Bytes(entries[p].html) \in Nat /\ Bytes(entries[p].html) <= N
  BY BytesAre
<1>3. Occupied(entries, S) \in SUBSET (S \X (1..N))
  BY <1>1, <1>2 DEF Occupied
<1>4. IsFiniteSet(S \X (1..N))
  <2> HIDE DEF N
  <2>1. IsFiniteSet(1..N)
    BY <1>1, FS_Interval
  <2> QED
    BY <2>1, FS_Product
<1>5. IsFiniteSet(Occupied(entries, S))
  BY <1>3, <1>4, FS_Subset
<1> QED
  BY <1>5, FS_CardinalityType DEF SizeOf

\* Two sets of paths with nothing in common occupy the sum of what they occupy.
LEMMA SizesAdd ==
  ASSUME NEW entries, NEW S, NEW T, IsFiniteSet(S), IsFiniteSet(T), S \cap T = {}
  PROVE  SizeOf(entries, S \cup T) = SizeOf(entries, S) + SizeOf(entries, T)
<1>1. /\ IsFiniteSet(Occupied(entries, S)) /\ SizeOf(entries, S) \in Nat
      /\ IsFiniteSet(Occupied(entries, T)) /\ SizeOf(entries, T) \in Nat
  BY OccupiedIsFinite
<1>2. Occupied(entries, S \cup T) = Occupied(entries, S) \cup Occupied(entries, T)
  BY DEF Occupied
<1>3. Occupied(entries, S) \cap Occupied(entries, T) = {}
  <2> SUFFICES ASSUME NEW o \in Occupied(entries, S), o \in Occupied(entries, T) PROVE FALSE
    OBVIOUS
  <2>1. PICK p \in S : o \in {p} \X (1 .. Bytes(entries[p].html))
    BY DEF Occupied
  <2>2. PICK q \in T : o \in {q} \X (1 .. Bytes(entries[q].html))
    BY DEF Occupied
  <2>3. o[1] = p /\ o[1] = q
    BY <2>1, <2>2
  <2> QED
    BY <2>3
<1>4. Cardinality(Occupied(entries, S \cup T)) =
        Cardinality(Occupied(entries, S)) + Cardinality(Occupied(entries, T)) - Cardinality({})
  <2> DEFINE A == Occupied(entries, S) B == Occupied(entries, T)
  <2>1. IsFiniteSet(A) /\ IsFiniteSet(B) /\ A \cap B = {}
    BY <1>1, <1>3
  <2>2. Cardinality(A \cup B) = Cardinality(A) + Cardinality(B) - Cardinality(A \cap B)
    <3> HIDE DEF A, B
    <3> QED
      BY <2>1, FS_Union
  <2>3. Cardinality(A \cap B) = Cardinality({})
    BY <1>3
  <2> QED
    BY <1>2, <2>2, <2>3
<1>5. Cardinality({}) = 0
  BY FS_EmptySet
<1> QED
  BY <1>1, <1>4, <1>5 DEF SizeOf

\* One path occupies the bytes of its document, and none occupy nothing.
LEMMA SizeOfOne ==
  ASSUME NEW entries, NEW p
  PROVE  SizeOf(entries, {p}) = Bytes(entries[p].html) /\ SizeOf(entries, {}) = 0
<1> DEFINE n == Bytes(entries[p].html)
<1>1. n \in Nat
  BY BytesAre
<1>2. Occupied(entries, {p}) = {p} \X (1..n)
  BY DEF Occupied
<1>3. IsFiniteSet({p}) /\ Cardinality({p}) = 1
  BY FS_Singleton
<1>4. IsFiniteSet(1..n) /\ Cardinality(1..n) = n
  BY <1>1, FS_Interval
<1>5. Cardinality({p} \X (1..n)) = Cardinality({p}) * Cardinality(1..n)
  BY <1>3, <1>4, FS_Product
<1>6. SizeOf(entries, {p}) = n
  <2>1. SizeOf(entries, {p}) = Cardinality({p} \X (1..n))
    BY <1>2 DEF SizeOf
  <2>2. \A i, j : i = 1 /\ j = n => i * j = n
    BY <1>1
  <2> HIDE DEF n
  <2> QED
    BY <1>3, <1>4, <1>5, <2>1, <2>2
<1>7. Occupied(entries, {}) = {}
  BY DEF Occupied
<1> QED
  BY <1>6, <1>7, FS_EmptySet DEF SizeOf

\* What paths occupy depends on their documents only.
LEMMA SizeSame ==
  ASSUME NEW e, NEW f, NEW S, \A p \in S : e[p].html = f[p].html
  PROVE  SizeOf(e, S) = SizeOf(f, S)
<1>1. \A p \in S : {p} \X (1 .. Bytes(e[p].html)) = {p} \X (1 .. Bytes(f[p].html))
  OBVIOUS
<1>2. Occupied(e, S) = Occupied(f, S)
  BY <1>1 DEF Occupied
<1> QED
  BY <1>2 DEF SizeOf

\* An entry: its document is made from the revisions that its version names.
EntryHolds(e) ==
    /\ e = [html |-> e.html, version |-> e.version, tag |-> e.tag, used |-> e.used]
    /\ e.used \in Int
    /\ e.html.revision = e.version[1] /\ e.html.header = e.version[2] /\ e.html.footer = e.version[3]

\* The tag index names just the paths of the entries.
Indexed(c) ==
    /\ \A p \in DOMAIN c.entries : c.entries[p].tag \in DOMAIN c.tags /\ p \in c.tags[c.entries[p].tag]
    /\ \A t \in DOMAIN c.tags : c.tags[t] # {} /\ \A p \in c.tags[t] :
          p \in DOMAIN c.entries /\ c.entries[p].tag = t

\* A cache in order, but for its bounds.
CacheOrderly(c) ==
    /\ c = [entries |-> c.entries, total |-> c.total, tags |-> c.tags]
    /\ IsFiniteSet(DOMAIN c.entries)
    /\ \A p \in DOMAIN c.entries : EntryHolds(c.entries[p])
    /\ c.total = SizeOf(c.entries, DOMAIN c.entries)
    /\ Indexed(c)

\* An entry that changes its rank in the order of use keeps the rest.
LEMMA RankedAnew ==
  ASSUME NEW e, EntryHolds(e), NEW n \in Int
  PROVE  LET f == [e EXCEPT !.used = n]
         IN EntryHolds(f) /\ f.html = e.html /\ f.version = e.version /\ f.tag = e.tag /\ f.used = n
<1>1. e \in [html : {e.html}, version : {e.version}, tag : {e.tag}, used : Int]
  BY DEF EntryHolds
<1>2. [e EXCEPT !.used = n] = [html |-> e.html, version |-> e.version, tag |-> e.tag, used |-> n]
  BY <1>1
<1> QED
  BY <1>2 DEF EntryHolds

\* What is kept when some entries are dropped.
LEMMA KeptIs ==
  ASSUME NEW entries, IsFiniteSet(DOMAIN entries), \A p \in DOMAIN entries : EntryHolds(entries[p]),
         NEW gone \in SUBSET DOMAIN entries
  PROVE  /\ DOMAIN Kept(entries, gone) = DOMAIN entries \ gone
         /\ \A p \in DOMAIN entries \ gone :
              /\ EntryHolds(Kept(entries, gone)[p])
              /\ Kept(entries, gone)[p].html = entries[p].html
              /\ Kept(entries, gone)[p].tag = entries[p].tag
<1>1. DOMAIN Kept(entries, gone) = DOMAIN entries \ gone
  BY DEF Kept
<1>2. ASSUME NEW p \in DOMAIN entries \ gone
      PROVE  /\ EntryHolds(Kept(entries, gone)[p])
             /\ Kept(entries, gone)[p].html = entries[p].html
             /\ Kept(entries, gone)[p].tag = entries[p].tag
  <2> DEFINE before == {q \in gone : entries[q].used < entries[p].used}
             n == entries[p].used - Cardinality(before)
  <2>1. IsFiniteSet(gone)
    BY FS_Subset
  <2>2. IsFiniteSet(before)
    BY <2>1, FS_Subset
  <2>3. Cardinality(before) \in Nat
    BY <2>2, FS_CardinalityType
  <2>4. n \in Int
    <3> HIDE DEF before
    <3> QED
      BY <2>3 DEF EntryHolds
  <2>5. Kept(entries, gone)[p] = [entries[p] EXCEPT !.used = n]
    BY DEF Kept
  <2>6. EntryHolds(entries[p])
    OBVIOUS
  <2> HIDE DEF n, before
  <2> QED
    BY <2>4, <2>5, <2>6, RankedAnew
<1> QED
  BY <1>1, <1>2

\* Entries are dropped with their bytes and their tags.
LEMMA DropKeysKeepsOrder ==
  ASSUME NEW c, CacheOrderly(c), NEW gone \in SUBSET DOMAIN c.entries
  PROVE  /\ CacheOrderly(DropKeys(c, gone))
         /\ DOMAIN DropKeys(c, gone).entries = DOMAIN c.entries \ gone
<1> DEFINE d == DropKeys(c, gone)
           rest == DOMAIN c.entries \ gone
           Left(t) == {p \in c.tags[t] : p \in gone => c.entries[p].tag # t}
           Tags == {t \in DOMAIN c.tags : Left(t) # {}}
<1>1. /\ d.entries = Kept(c.entries, gone)
      /\ d.total = c.total - SizeOf(c.entries, gone)
      /\ d.tags = [t \in Tags |-> Left(t)]
      /\ d = [entries |-> d.entries, total |-> d.total, tags |-> d.tags]
  BY DEF DropKeys
<1>2. IsFiniteSet(gone) /\ IsFiniteSet(rest)
  BY FS_Subset DEF CacheOrderly
<1>3. /\ DOMAIN d.entries = rest
      /\ \A p \in rest : EntryHolds(d.entries[p]) /\ d.entries[p].html = c.entries[p].html
                         /\ d.entries[p].tag = c.entries[p].tag
  <2>1. IsFiniteSet(DOMAIN c.entries) /\ \A p \in DOMAIN c.entries : EntryHolds(c.entries[p])
    BY DEF CacheOrderly
  <2>2. /\ DOMAIN Kept(c.entries, gone) = rest
        /\ \A p \in rest : /\ EntryHolds(Kept(c.entries, gone)[p])
                           /\ Kept(c.entries, gone)[p].html = c.entries[p].html
                           /\ Kept(c.entries, gone)[p].tag = c.entries[p].tag
    BY <2>1, KeptIs
  <2> HIDE DEF d, rest
  <2> QED
    BY <1>1, <2>2
<1>4. d.total = SizeOf(d.entries, rest)
  <2>1. gone \cap rest = {} /\ gone \cup rest = DOMAIN c.entries
    OBVIOUS
  <2>2. SizeOf(c.entries, gone \cup rest) = SizeOf(c.entries, gone) + SizeOf(c.entries, rest)
    <3> HIDE DEF rest
    <3> QED
      BY <1>2, <2>1, SizesAdd
  <2>3. SizeOf(c.entries, gone) \in Nat /\ SizeOf(c.entries, rest) \in Nat
    BY <1>2, OccupiedIsFinite
  <2>4. SizeOf(d.entries, rest) = SizeOf(c.entries, rest)
    <3> HIDE DEF rest, d
    <3> QED
      BY <1>3, SizeSame
  <2>5. c.total = SizeOf(c.entries, gone \cup rest)
    BY <2>1 DEF CacheOrderly
  <2> HIDE DEF rest, d
  <2> QED
    BY <1>1, <2>2, <2>3, <2>4, <2>5
<1>5. Indexed(d)
  <2>1. Indexed(c)
    BY DEF CacheOrderly
  <2>2. DOMAIN d.tags = Tags /\ \A t \in Tags : d.tags[t] = Left(t)
    BY <1>1
  <2>3. ASSUME NEW p \in rest
        PROVE  d.entries[p].tag \in Tags /\ p \in d.tags[d.entries[p].tag]
    <3>1. p \in Left(c.entries[p].tag) /\ c.entries[p].tag \in DOMAIN c.tags
      BY <2>1 DEF Indexed
    <3> HIDE DEF d, rest
    <3> QED
      BY <1>3, <2>2, <2>3, <3>1
  <2>4. ASSUME NEW t \in Tags
        PROVE  d.tags[t] # {} /\ \A p \in d.tags[t] : p \in rest /\ d.entries[p].tag = t
    <3>1. \A p \in Left(t) : p \in rest /\ c.entries[p].tag = t
      BY <2>1 DEF Indexed
    <3>2. Left(t) # {} /\ d.tags[t] = Left(t)
      BY <2>2
    <3> HIDE DEF d, rest, Left
    <3> QED
      BY <1>3, <3>1, <3>2
  <2> HIDE DEF d, rest, Tags
  <2> QED
    BY <1>3, <2>2, <2>3, <2>4 DEF Indexed
<1> HIDE DEF d, rest
<1>6. CacheOrderly(d) /\ DOMAIN d.entries = rest
  BY <1>1, <1>2, <1>3, <1>4, <1>5 DEF CacheOrderly
<1> QED
  BY <1>6 DEF d, rest

\* Nothing that is dropped is all that is dropped in the end.
LEMMA NoneIsLeft ==
  ASSUME NEW c, CacheOrderly(c)
  PROVE  DOMAIN c.entries \in Oldest(c) /\ Fits(DropKeys(c, DOMAIN c.entries))
<1> DEFINE all == DOMAIN c.entries
           d == DropKeys(c, all)
<1>1. all \in Oldest(c)
  BY DEF Oldest
<1>2. all \in SUBSET DOMAIN c.entries
  OBVIOUS
<1>3. CacheOrderly(d) /\ DOMAIN d.entries = all \ all
  <2> HIDE DEF d
  <2> QED
    BY <1>2, DropKeysKeepsOrder DEF d
<1>4. DOMAIN d.entries = {}
  BY <1>3
<1>5. d.total = 0 /\ Cardinality(DOMAIN d.entries) = 0
  BY <1>3, <1>4, SizeOfOne, FS_EmptySet DEF CacheOrderly
<1> HIDE DEF d
<1> QED
  BY <1>1, <1>5, SiteAssumption DEF Fits, d

\* Of two sets of the least recently used entries one is part of the other.
LEMMA OldestAreNested ==
  ASSUME NEW c, CacheOrderly(c), NEW S \in Oldest(c), NEW T \in Oldest(c)
  PROVE  S \subseteq T \/ T \subseteq S
<1> SUFFICES ASSUME NEW p \in S, p \notin T, NEW q \in T, q \notin S PROVE FALSE
  OBVIOUS
<1>1. p \in DOMAIN c.entries /\ q \in DOMAIN c.entries
  BY DEF Oldest
<1>2. c.entries[p].used < c.entries[q].used /\ c.entries[q].used < c.entries[p].used
  BY <1>1 DEF Oldest
<1>3. c.entries[p].used \in Int /\ c.entries[q].used \in Int
  BY <1>1 DEF CacheOrderly, EntryHolds
<1> QED
  BY <1>2, <1>3

\* Eviction ends, with a cache in order that fits.
LEMMA EvictFits ==
  ASSUME NEW c, CacheOrderly(c)
  PROVE  CacheOrderly(Evict(c)) /\ Fits(Evict(c))
<1> DEFINE fitting == {gone \in Oldest(c) : Fits(DropKeys(c, gone))}
           all == DOMAIN c.entries
           Least(gone) == \A g \in fitting : gone \subseteq g
<1>1. fitting \subseteq SUBSET all /\ fitting # {} /\ IsFiniteSet(all)
  BY NoneIsLeft DEF Oldest, CacheOrderly
<1>2. PICK gone \in fitting : Minimal(gone, fitting)
  <2> HIDE DEF fitting, all
  <2> QED
    BY <1>1, SmallestSubset
<1>3. Least(gone)
  <2> SUFFICES ASSUME NEW g \in fitting PROVE gone \subseteq g
    OBVIOUS
  <2>1. gone \subseteq g \/ g \subseteq gone
    BY OldestAreNested
  <2> HIDE DEF fitting
  <2> QED
    BY <1>2, <2>1 DEF Minimal
<1> DEFINE chosen == CHOOSE gone_1 \in fitting : Least(gone_1)
<1>4. chosen \in fitting
  <2> HIDE DEF fitting, Least
  <2> QED
    BY <1>3
<1>5. Evict(c) = DropKeys(c, chosen)
  BY DEF Evict
<1>6. chosen \in SUBSET all /\ Fits(DropKeys(c, chosen))
  <2> HIDE DEF chosen
  <2> QED
    BY <1>1, <1>4
<1> HIDE DEF chosen, fitting
<1>7. CacheOrderly(DropKeys(c, chosen))
  BY <1>6, DropKeysKeepsOrder
<1> QED
  BY <1>5, <1>6, <1>7

\* A new entry comes with its bytes and its tag.
LEMMA CacheAddKeepsOrder ==
  ASSUME NEW c, CacheOrderly(c), NEW path, path \notin DOMAIN c.entries, NEW html, NEW version, NEW tag,
         html.revision = version[1], html.header = version[2], html.footer = version[3]
  PROVE  CacheOrderly(CacheAdd(c, path, html, version, tag))
<1> DEFINE d == CacheAdd(c, path, html, version, tag)
           old == DOMAIN c.entries
           n == 1 + Cardinality(old)
           e == [html |-> html, version |-> version, tag |-> tag, used |-> n]
           Of(t) == (IF t \in DOMAIN c.tags THEN c.tags[t] ELSE {}) \cup (IF t = tag THEN {path} ELSE {})
<1>1. /\ d.entries = [p \in old \cup {path} |-> IF p = path THEN e ELSE c.entries[p]]
      /\ d.total = c.total + Bytes(html)
      /\ d.tags = [t \in DOMAIN c.tags \cup {tag} |-> Of(t)]
      /\ d = [entries |-> d.entries, total |-> d.total, tags |-> d.tags]
  BY DEF CacheAdd
<1>2. IsFiniteSet(old) /\ n \in Int
  BY FS_CardinalityType DEF CacheOrderly
<1>3. IsFiniteSet(old \cup {path})
  BY <1>2, FS_AddElement
<1>4. EntryHolds(e) /\ e.html = html /\ e.tag = tag
  <2> HIDE DEF n
  <2> QED
    BY <1>2 DEF EntryHolds
<1>5. /\ DOMAIN d.entries = old \cup {path} /\ d.entries[path] = e
      /\ \A p \in old : d.entries[p] = c.entries[p]
  <2> HIDE DEF e
  <2> QED
    BY <1>1
<1>6. \A p \in old \cup {path} : EntryHolds(d.entries[p])
  <2> HIDE DEF d, e
  <2> QED
    BY <1>4, <1>5 DEF CacheOrderly
<1>7. d.total = SizeOf(d.entries, old \cup {path})
  <2>1. SizeOf(d.entries, old \cup {path}) = SizeOf(d.entries, old) + SizeOf(d.entries, {path})
    <3>1. IsFiniteSet({path}) /\ old \cap {path} = {}
      BY FS_Singleton
    <3> HIDE DEF d, old
    <3> QED
      BY <1>2, <3>1, SizesAdd
  <2>2. SizeOf(d.entries, {path}) = Bytes(html)
    <3> HIDE DEF d, e
    <3> QED
      BY <1>4, <1>5, SizeOfOne
  <2>3. SizeOf(d.entries, old) = SizeOf(c.entries, old)
    <3> HIDE DEF d
    <3> QED
      BY <1>5, SizeSame
  <2> HIDE DEF d
  <2> QED
    BY <1>1, <2>1, <2>2, <2>3 DEF CacheOrderly
<1>8. Indexed(d)
  <2>1. Indexed(c)
    BY DEF CacheOrderly
  <2>2. DOMAIN d.tags = DOMAIN c.tags \cup {tag} /\ \A t \in DOMAIN c.tags \cup {tag} : d.tags[t] = Of(t)
    BY <1>1
  <2>3. ASSUME NEW p \in old \cup {path}
        PROVE  d.entries[p].tag \in DOMAIN d.tags /\ p \in d.tags[d.entries[p].tag]
    <3>1. CASE p = path
      <4>1. d.entries[p].tag = tag /\ p \in Of(tag)
        <5> HIDE DEF d, e
        <5> QED
          BY <1>4, <1>5, <3>1
      <4> HIDE DEF d, Of
      <4> QED
        BY <2>2, <4>1
    <3>2. CASE p # path
      <4>1. p \in old /\ d.entries[p] = c.entries[p]
        BY <1>5, <3>2
      <4>2. c.entries[p].tag \in DOMAIN c.tags /\ p \in Of(c.entries[p].tag)
        BY <2>1, <4>1 DEF Indexed
      <4> HIDE DEF d, Of
      <4> QED
        BY <2>2, <4>1, <4>2
    <3> QED
      BY <3>1, <3>2
  <2>4. ASSUME NEW t \in DOMAIN c.tags \cup {tag}
        PROVE  d.tags[t] # {} /\ \A p \in d.tags[t] : p \in old \cup {path} /\ d.entries[p].tag = t
    <3>1. Of(t) # {}
      BY <2>1 DEF Indexed
    <3>2. ASSUME NEW p \in Of(t) PROVE p \in old \cup {path} /\ d.entries[p].tag = t
      <4>1. CASE t = tag /\ p = path
        <5> HIDE DEF d, e
        <5> QED
          BY <1>4, <1>5, <4>1
      <4>2. CASE t \in DOMAIN c.tags /\ p \in c.tags[t]
        <5>1. p \in old /\ c.entries[p].tag = t
          BY <2>1, <4>2 DEF Indexed
        <5> HIDE DEF d
        <5> QED
          BY <1>5, <5>1
      <4> HIDE DEF d
      <4> QED
        BY <3>2, <4>1, <4>2
    <3> HIDE DEF d, Of
    <3> QED
      BY <2>2, <3>1, <3>2
  <2> HIDE DEF d, Of
  <2> QED
    BY <1>5, <2>2, <2>3, <2>4 DEF Indexed
<1> HIDE DEF d, e
<1>9. CacheOrderly(d)
  BY <1>1, <1>3, <1>5, <1>6, <1>7, <1>8 DEF CacheOrderly
<1> QED
  BY <1>9 DEF d

\* Setting a document replaces the old one, or drops it where the new one is too large.
LEMMA CacheSetKeepsOrder ==
  ASSUME NEW c, CacheOrderly(c), Fits(c), NEW path, NEW html, NEW version, NEW tag,
         html.revision = version[1], html.header = version[2], html.footer = version[3]
  PROVE  LET d == CacheSet(c, path, html, version, tag) IN CacheOrderly(d) /\ Fits(d)
<1> DEFINE gone == {path} \cap DOMAIN c.entries
           d == DropKeys(c, gone)
<1>1. gone \in SUBSET DOMAIN c.entries /\ path \notin DOMAIN c.entries \ gone
  OBVIOUS
<1>2. CacheOrderly(d) /\ DOMAIN d.entries = DOMAIN c.entries \ gone
  <2> HIDE DEF gone
  <2> QED
    BY <1>1, DropKeysKeepsOrder
<1>3. Fits(d)
  <2>1. d.total = c.total - SizeOf(c.entries, gone)
    BY DEF DropKeys
  <2>2. IsFiniteSet(DOMAIN c.entries)
    BY DEF CacheOrderly
  <2>3. IsFiniteSet(gone) /\ IsFiniteSet(DOMAIN d.entries)
        /\ Cardinality(DOMAIN d.entries) <= Cardinality(DOMAIN c.entries)
    <3> HIDE DEF d
    <3>1. gone \in SUBSET DOMAIN c.entries /\ DOMAIN d.entries \in SUBSET DOMAIN c.entries
      BY <1>2
    <3> HIDE DEF gone
    <3> QED
      BY <2>2, <3>1, FS_Subset
  <2>4. SizeOf(c.entries, gone) \in Nat /\ c.total \in Nat
    BY <2>2, <2>3, OccupiedIsFinite DEF CacheOrderly
  <2>5. Cardinality(DOMAIN c.entries) \in Nat /\ Cardinality(DOMAIN d.entries) \in Nat
    BY <2>2, <2>3, FS_CardinalityType
  <2> HIDE DEF d, gone
  <2> QED
    BY <2>1, <2>3, <2>4, <2>5, SiteAssumption DEF Fits
<1> HIDE DEF d
<1>4. CASE Bytes(html) > MaxBytes
  BY <1>2, <1>3, <1>4 DEF CacheSet, d
<1>5. CASE ~ (Bytes(html) > MaxBytes)
  <2>1. path \notin DOMAIN d.entries
    BY <1>1, <1>2
  <2>2. CacheOrderly(CacheAdd(d, path, html, version, tag))
    BY <1>2, <2>1, CacheAddKeepsOrder
  <2>3. CacheOrderly(Evict(CacheAdd(d, path, html, version, tag)))
        /\ Fits(Evict(CacheAdd(d, path, html, version, tag)))
    BY <2>2, EvictFits
  <2> QED
    BY <1>5, <2>3 DEF CacheSet, d
<1> QED
  BY <1>4, <1>5

\* A document that is taken from the cache stays there as it is.
LEMMA TouchKeepsOrder ==
  ASSUME NEW c, CacheOrderly(c), Fits(c), NEW path
  PROVE  CacheOrderly(Touch(c, path)) /\ Fits(Touch(c, path))
<1>1. CASE path \notin DOMAIN c.entries
  BY <1>1 DEF Touch
<1>2. CASE path \in DOMAIN c.entries
  <2> DEFINE all == DOMAIN c.entries
             new == [p \in all |-> [c.entries[p] EXCEPT !.used = Rank(c.entries, p, path)]]
             d == [entries |-> new, total |-> c.total, tags |-> c.tags]
  <2>1. \A p \in all : EntryHolds(c.entries[p])
    BY DEF CacheOrderly
  <2>2. \A p \in all : Rank(c.entries, p, path) \in Int
    <3>1. IsFiniteSet(all)
      BY DEF CacheOrderly
    <3>2. Cardinality(all) \in Nat
      BY <3>1, FS_CardinalityType
    <3>3. \A p \in all : c.entries[p].used \in Int
      BY <2>1 DEF EntryHolds
    <3> QED
      BY <1>2, <3>2, <3>3 DEF Rank
  <2>3. c \in [entries : {c.entries}, total : {c.total}, tags : {c.tags}]
    BY DEF CacheOrderly
  <2>4. Touch(c, path) = d
    <3>1. Touch(c, path) = [c EXCEPT !.entries = new]
      BY <1>2 DEF Touch
    <3> HIDE DEF new
    <3> QED
      BY <2>3, <3>1
  <2>5. ASSUME NEW p \in all
        PROVE  EntryHolds(new[p]) /\ new[p].html = c.entries[p].html /\ new[p].tag = c.entries[p].tag
    <3>1. new[p] = [c.entries[p] EXCEPT !.used = Rank(c.entries, p, path)]
      OBVIOUS
    <3> HIDE DEF new
    <3> QED
      BY <2>1, <2>2, <3>1, RankedAnew
  <2>6. DOMAIN new = all
    OBVIOUS
  <2>7. SizeOf(new, all) = SizeOf(c.entries, all)
    <3> HIDE DEF new, all
    <3> QED
      BY <2>5, SizeSame
  <2>8. d.entries = new /\ d.total = c.total /\ d.tags = c.tags
        /\ d = [entries |-> d.entries, total |-> d.total, tags |-> d.tags]
    OBVIOUS
  <2>9. Indexed(d)
    <3>1. Indexed(c)
      BY DEF CacheOrderly
    <3> HIDE DEF new, d
    <3> QED
      BY <2>5, <2>6, <2>8, <3>1 DEF Indexed
  <2> HIDE DEF d, new
  <2>10. CacheOrderly(d)
    BY <2>5, <2>6, <2>7, <2>8, <2>9 DEF CacheOrderly
  <2>11. Fits(d)
    BY <2>6, <2>8 DEF Fits
  <2> QED
    BY <2>4, <2>10, <2>11
<1> QED
  BY <1>1, <1>2

(***************************************************************************)
(* The requests of the Site.                                               *)
(***************************************************************************)
RevisionIn(pages, slug) == IF slug \in DOMAIN pages THEN pages[slug].revision ELSE 0

PageHolds(e) ==
    /\ e = [published |-> e.published, system |-> e.system, gated |-> e.gated, revision |-> e.revision,
            locale |-> e.locale, retired |-> e.retired, since |-> e.since]
    /\ e.revision \in Nat
PagesHold == DOMAIN page = Slugs \cup Chrome /\ \A s \in Slugs \cup Chrome : PageHolds(page[s])

IsCall(c) ==
    c = [at |-> c.at, path |-> c.path, from |-> c.from, fragments |-> c.fragments, entry |-> c.entry,
         items |-> c.items, floor |-> c.floor, failed |-> c.failed, open |-> c.open, lists |-> c.lists]

\* What was stored when the request began is no newer than what is stored now.
FloorHolds(c, pages) ==
    /\ c.floor.page \in Nat /\ c.floor.page <= RevisionIn(pages, ParsePath(c.path).slug)
    /\ c.floor.header \in Nat /\ c.floor.header <= pages["header"].revision
    /\ c.floor.footer \in Nat /\ c.floor.footer <= pages["footer"].revision

\* A page that is not for members only, now, is noted as one that was open.
GateNoted(c, pages) ==
    c.open \/ (ParsePath(c.path).slug \in DOMAIN pages /\ pages[ParsePath(c.path).slug].gated)

\* What the request has read so far is no older than what was stored when it began.
ReadsHold(c) ==
    /\ c.at \in {"resolve", "serve", "finish"} =>
          /\ "header" \in c.failed \/ c.fragments.header >= c.floor.header
          /\ "footer" \in c.failed \/ c.fragments.footer >= c.floor.footer
    /\ c.at \in {"serve", "finish"} => c.entry.revision >= c.floor.page /\ c.open

CallHolds(c, pages) ==
    /\ IsCall(c)
    /\ c = NoRequest \/ (FloorHolds(c, pages) /\ GateNoted(c, pages) /\ ReadsHold(c))
CallsHold == DOMAIN request = Visitor /\ \A v \in Visitor : CallHolds(request[v], page)

\* A page that a visitor got.
PageShown(document, of) ==
    /\ document.revision >= of.floor.page
    /\ "header" \in of.failed \/ document.header >= of.floor.header
    /\ "footer" \in of.failed \/ document.footer >= of.floor.footer
    /\ of.open
SeenHold ==
    DOMAIN seen = Visitor /\ \A v \in Visitor : seen[v].kind = "page" => PageShown(seen[v].document, seen[v].of)

CacheHolds == CacheOrderly(cache) /\ Fits(cache)

SiteInv == PagesHold /\ CallsHold /\ SeenHold /\ CacheHolds

\* A request that goes on changes one thing or another and keeps the rest.
LEMMA CallMoves ==
  ASSUME NEW c, IsCall(c), NEW a
  PROVE  LET d == [c EXCEPT !.at = a] IN
         /\ IsCall(d) /\ d.at = a
         /\ d.path = c.path /\ d.from = c.from /\ d.fragments = c.fragments /\ d.entry = c.entry 
         /\ d.items = c.items /\ d.floor = c.floor /\ d.failed = c.failed /\ d.open = c.open /\ d.lists = c.lists
<1>1. c \in [at : {c.at, a}, path : {c.path}, from : {c.from}, fragments : {c.fragments}, entry : {c.entry},
             items : {c.items}, floor : {c.floor}, failed : {c.failed}, open : {c.open}, lists : {c.lists}]
  BY DEF IsCall
<1>2. [c EXCEPT !.at = a] =
             [at |-> a, path |-> c.path, from |-> c.from, fragments |-> c.fragments, entry |-> c.entry,
              items |-> c.items, floor |-> c.floor, failed |-> c.failed, open |-> c.open, lists |-> c.lists]
  BY <1>1
<1> QED
  BY <1>2 DEF IsCall

\* The same, of failed.
LEMMA CallFails ==
  ASSUME NEW c, IsCall(c), NEW f
  PROVE  LET d == [c EXCEPT !.failed = f] IN
         /\ IsCall(d) /\ d.failed = f
         /\ d.at = c.at /\ d.path = c.path /\ d.from = c.from /\ d.fragments = c.fragments /\ d.entry = c.entry 
         /\ d.items = c.items /\ d.floor = c.floor /\ d.open = c.open /\ d.lists = c.lists
<1>1. c \in [at : {c.at}, path : {c.path}, from : {c.from}, fragments : {c.fragments}, entry : {c.entry},
             items : {c.items}, floor : {c.floor}, failed : {c.failed, f}, open : {c.open}, lists : {c.lists}]
  BY DEF IsCall
<1>2. [c EXCEPT !.failed = f] =
             [at |-> c.at, path |-> c.path, from |-> c.from, fragments |-> c.fragments, entry |-> c.entry,
              items |-> c.items, floor |-> c.floor, failed |-> f, open |-> c.open, lists |-> c.lists]
  BY <1>1
<1> QED
  BY <1>2 DEF IsCall

\* The same, of fragments.
LEMMA CallReads ==
  ASSUME NEW c, IsCall(c), NEW g
  PROVE  LET d == [c EXCEPT !.fragments = g] IN
         /\ IsCall(d) /\ d.fragments = g
         /\ d.at = c.at /\ d.path = c.path /\ d.from = c.from /\ d.entry = c.entry 
         /\ d.items = c.items /\ d.floor = c.floor /\ d.failed = c.failed /\ d.open = c.open /\ d.lists = c.lists
<1>1. c \in [at : {c.at}, path : {c.path}, from : {c.from}, fragments : {c.fragments, g}, entry : {c.entry},
             items : {c.items}, floor : {c.floor}, failed : {c.failed}, open : {c.open}, lists : {c.lists}]
  BY DEF IsCall
<1>2. [c EXCEPT !.fragments = g] =
             [at |-> c.at, path |-> c.path, from |-> c.from, fragments |-> g, entry |-> c.entry,
              items |-> c.items, floor |-> c.floor, failed |-> c.failed, open |-> c.open, lists |-> c.lists]
  BY <1>1
<1> QED
  BY <1>2 DEF IsCall

\* The same, of open.
LEMMA CallOpens ==
  ASSUME NEW c, IsCall(c), NEW o \in BOOLEAN
  PROVE  LET d == [c EXCEPT !.open = o] IN
         /\ IsCall(d) /\ d.open = o
         /\ d.at = c.at /\ d.path = c.path /\ d.from = c.from /\ d.fragments = c.fragments /\ d.entry = c.entry 
         /\ d.items = c.items /\ d.floor = c.floor /\ d.failed = c.failed /\ d.lists = c.lists
<1>1. c \in [at : {c.at}, path : {c.path}, from : {c.from}, fragments : {c.fragments}, entry : {c.entry},
             items : {c.items}, floor : {c.floor}, failed : {c.failed}, open : {c.open, o}, lists : {c.lists}]
  BY DEF IsCall
<1>2. [c EXCEPT !.open = o] =
             [at |-> c.at, path |-> c.path, from |-> c.from, fragments |-> c.fragments, entry |-> c.entry,
              items |-> c.items, floor |-> c.floor, failed |-> c.failed, open |-> o, lists |-> c.lists]
  BY <1>1
<1> QED
  BY <1>2 DEF IsCall

\* The same, of entry.
LEMMA CallFinds ==
  ASSUME NEW c, IsCall(c), NEW e
  PROVE  LET d == [c EXCEPT !.entry = e] IN
         /\ IsCall(d) /\ d.entry = e
         /\ d.at = c.at /\ d.path = c.path /\ d.from = c.from /\ d.fragments = c.fragments 
         /\ d.items = c.items /\ d.floor = c.floor /\ d.failed = c.failed /\ d.open = c.open /\ d.lists = c.lists
<1>1. c \in [at : {c.at}, path : {c.path}, from : {c.from}, fragments : {c.fragments}, entry : {c.entry, e},
             items : {c.items}, floor : {c.floor}, failed : {c.failed}, open : {c.open}, lists : {c.lists}]
  BY DEF IsCall
<1>2. [c EXCEPT !.entry = e] =
             [at |-> c.at, path |-> c.path, from |-> c.from, fragments |-> c.fragments, entry |-> e,
              items |-> c.items, floor |-> c.floor, failed |-> c.failed, open |-> c.open, lists |-> c.lists]
  BY <1>1
<1> QED
  BY <1>2 DEF IsCall

\* The same, of items.
LEMMA CallLists ==
  ASSUME NEW c, IsCall(c), NEW i
  PROVE  LET d == [c EXCEPT !.items = i] IN
         /\ IsCall(d) /\ d.items = i
         /\ d.at = c.at /\ d.path = c.path /\ d.from = c.from /\ d.fragments = c.fragments /\ d.entry = c.entry
         /\ d.floor = c.floor /\ d.failed = c.failed /\ d.open = c.open /\ d.lists = c.lists
<1>1. c \in [at : {c.at}, path : {c.path}, from : {c.from}, fragments : {c.fragments}, entry : {c.entry},
             items : {c.items, i}, floor : {c.floor}, failed : {c.failed}, open : {c.open}, lists : {c.lists}]
  BY DEF IsCall
<1>2. [c EXCEPT !.items = i] =
             [at |-> c.at, path |-> c.path, from |-> c.from, fragments |-> c.fragments, entry |-> c.entry,
              items |-> i, floor |-> c.floor, failed |-> c.failed, open |-> c.open, lists |-> c.lists]
  BY <1>1
<1> QED
  BY <1>2 DEF IsCall

\* The same, of lists.
LEMMA CallNotes ==
  ASSUME NEW c, IsCall(c), NEW l
  PROVE  LET d == [c EXCEPT !.lists = l] IN
         /\ IsCall(d) /\ d.lists = l
         /\ d.at = c.at /\ d.path = c.path /\ d.from = c.from /\ d.fragments = c.fragments /\ d.entry = c.entry 
         /\ d.items = c.items /\ d.floor = c.floor /\ d.failed = c.failed /\ d.open = c.open
<1>1. c \in [at : {c.at}, path : {c.path}, from : {c.from}, fragments : {c.fragments}, entry : {c.entry},
             items : {c.items}, floor : {c.floor}, failed : {c.failed}, open : {c.open}, lists : {c.lists, l}]
  BY DEF IsCall
<1>2. [c EXCEPT !.lists = l] =
             [at |-> c.at, path |-> c.path, from |-> c.from, fragments |-> c.fragments, entry |-> c.entry,
              items |-> c.items, floor |-> c.floor, failed |-> c.failed, open |-> c.open, lists |-> l]
  BY <1>1
<1> QED
  BY <1>2 DEF IsCall

\* A visitor's place for a request, when there is none.
LEMMA IdleHolds == ASSUME NEW pages PROVE IsCall(NoRequest) /\ CallHolds(NoRequest, pages) /\ NoRequest.at = "idle"
  BY DEF IsCall, CallHolds, NoRequest

\* The answer to a request.
LEMMA RespondKeeps ==
  ASSUME CallsHold, SeenHold, NEW v \in Visitor, NEW kind, NEW document, NEW to, Respond(v, kind, document, to),
         page' = page, kind = "page" => PageShown(document, NotesOf(request[v]))
  PROVE  CallsHold' /\ SeenHold'
<1>1. DOMAIN request' = Visitor /\ \A u \in Visitor : request'[u] = IF u = v THEN NoRequest ELSE request[u]
  BY DEF Respond, CallsHold
<1>2. CallsHold'
  BY <1>1, IdleHolds DEF CallsHold
<1> DEFINE s == [kind |-> kind, path |-> request[v].path, document |-> document, to |-> to, of |-> NotesOf(request[v])]
<1>3. s.kind = kind /\ s.document = document /\ s.of = NotesOf(request[v])
  OBVIOUS
<1>4. DOMAIN seen' = Visitor /\ \A u \in Visitor : seen'[u] = IF u = v THEN s ELSE seen[u]
  BY DEF Respond, SeenHold
<1>5. ASSUME NEW u \in Visitor, seen'[u].kind = "page" PROVE PageShown(seen'[u].document, seen'[u].of)
  <2>1. CASE u = v
    <3>1. seen'[u] = s
      BY <1>4, <2>1
    <3> HIDE DEF s
    <3> QED
      BY <1>3, <1>5, <3>1
  <2>2. CASE u # v
    <3>1. seen'[u] = seen[u]
      BY <1>4, <2>2
    <3> QED
      BY <1>5, <3>1 DEF SeenHold
  <2> QED
    BY <2>1, <2>2
<1> HIDE DEF s
<1>6. SeenHold'
  <2>1. \A u \in Visitor : seen'[u].kind = "page" => PageShown(seen'[u].document, seen'[u].of)
    BY <1>5
  <2>2. (\A u \in Visitor : seen[u].kind = "page" => PageShown(seen[u].document, seen[u].of))'
    BY <2>1 DEF PageShown
  <2> QED
    BY <1>4, <2>2 DEF SeenHold
<1> QED
  BY <1>2, <1>6

\* A request goes on.
LEMMA AdvanceKeeps ==
  ASSUME CallsHold, SeenHold, NEW v \in Visitor, NEW c, Advance(v, c), CallHolds(c, page), page' = page
  PROVE  CallsHold' /\ SeenHold'
<1>1. DOMAIN request' = Visitor /\ \A u \in Visitor : request'[u] = IF u = v THEN c ELSE request[u]
  BY DEF Advance, CallsHold
<1>2. CallsHold'
  BY <1>1 DEF CallsHold
<1>3. SeenHold'
  BY DEF Advance, SeenHold
<1> QED
  BY <1>2, <1>3

\* A request that begins notes what is stored.
LEMMA AskingHolds ==
  ASSUME PagesHold, NEW path, NEW from
  PROVE  CallHolds(Asking(path, from), page)
<1> DEFINE c == Asking(path, from)
<1>1. /\ IsCall(c) /\ c.at = "guard" /\ c.path = path
      /\ c.floor.page = Revision(ParsePath(path).slug)
      /\ c.floor.header = page["header"].revision /\ c.floor.footer = page["footer"].revision
  BY DEF Asking, IsCall
<1>2. c.open \/ (Published(path) /\ page[ParsePath(path).slug].gated)
  BY DEF Asking
<1>3. Published(path) => ParsePath(path).slug \in DOMAIN page
  BY DEF Published
<1> HIDE DEF c
<1>4. FloorHolds(c, page)
  <2>1. \A s \in DOMAIN page : page[s].revision \in Nat
    BY DEF PagesHold, PageHolds
  <2>2. "header" \in DOMAIN page /\ "footer" \in DOMAIN page
    BY DEF PagesHold, Chrome
  <2> QED
    BY <1>1, <2>1, <2>2 DEF FloorHolds, Revision, RevisionIn
<1>5. GateNoted(c, page)
  BY <1>1, <1>2, <1>3 DEF GateNoted
<1>6. ReadsHold(c)
  BY <1>1 DEF ReadsHold
<1> QED
  BY <1>1, <1>4, <1>5, <1>6 DEF CallHolds, c

LEMMA AskKeeps ==
  ASSUME SiteInv, NEW v \in Visitor, NEW path, NEW from, Ask(v, path, from)
  PROVE  SiteInv'
<1>1. page' = page /\ cache' = cache /\ Advance(v, Asking(path, from))
  BY DEF Ask
<1>2. CallHolds(Asking(path, from), page)
  BY AskingHolds DEF SiteInv
<1>3. CallsHold' /\ SeenHold'
  BY <1>1, <1>2, AdvanceKeeps DEF SiteInv
<1> QED
  BY <1>1, <1>3 DEF SiteInv, PagesHold, CacheHolds

\* What is known of a request on its way.
LEMMA OnItsWay ==
  ASSUME SiteInv, NEW v \in Visitor, request[v].at # "idle"
  PROVE  /\ IsCall(request[v]) /\ FloorHolds(request[v], page) /\ GateNoted(request[v], page) /\ ReadsHold(request[v])
         /\ NotesOf(request[v]).floor = request[v].floor /\ NotesOf(request[v]).failed = request[v].failed
         /\ NotesOf(request[v]).open = request[v].open
<1>1. CallHolds(request[v], page)
  BY DEF SiteInv, CallsHold
<1>2. request[v] # NoRequest
  BY IdleHolds
<1> QED
  BY <1>1, <1>2 DEF CallHolds, NotesOf

\* The guard draws the maintenance page or lets the request on.
LEMMA GuardKeeps ==
  ASSUME SiteInv, NEW v \in Visitor, NEW expired, Guard(v, expired)
  PROVE  SiteInv'
<1>1. page' = page /\ cache' = cache /\ request[v].at = "guard"
  BY DEF Guard
<1>2. /\ IsCall(request[v]) /\ FloorHolds(request[v], page) /\ GateNoted(request[v], page)
  BY <1>1, OnItsWay
<1>3. CASE \E document : Respond(v, "maintenance", document, Nowhere)
  <2>1. PICK document : Respond(v, "maintenance", document, Nowhere)
    BY <1>3
  <2>2. CallsHold' /\ SeenHold'
    BY <1>1, <2>1, RespondKeeps DEF SiteInv
  <2> QED
    BY <1>1, <2>2 DEF SiteInv, PagesHold, CacheHolds
<1>4. CASE Advance(v, [request[v] EXCEPT !.at = "fragments"])
  <2> DEFINE c == [request[v] EXCEPT !.at = "fragments"]
  <2>1. IsCall(c) /\ c.at = "fragments" /\ c.path = request[v].path
        /\ c.floor = request[v].floor /\ c.open = request[v].open
    BY <1>2, CallMoves DEF IsCall
  <2>2. Advance(v, c)
    BY <1>4
  <2> HIDE DEF c
  <2>3. CallHolds(c, page)
    BY <1>2, <2>1 DEF CallHolds, FloorHolds, GateNoted, ReadsHold
  <2>4. CallsHold' /\ SeenHold'
    BY <1>1, <2>2, <2>3, AdvanceKeeps DEF SiteInv
  <2> QED
    BY <1>1, <2>4 DEF SiteInv, PagesHold, CacheHolds
<1> QED
  BY <1>3, <1>4 DEF Guard

\* The header and the footer are read, but for one that cannot be.
LEMMA FragmentsKeep ==
  ASSUME SiteInv, NEW v \in Visitor, NEW failing, RenderSystemFragments(v, failing)
  PROVE  SiteInv'
<1>1. page' = page /\ cache' = cache /\ request[v].at = "fragments"
  BY DEF RenderSystemFragments
<1>2. /\ IsCall(request[v]) /\ FloorHolds(request[v], page) /\ GateNoted(request[v], page)
  BY <1>1, OnItsWay
<1> DEFINE of(s) == IF s \in failing THEN 0 ELSE page[s].revision
           g == [header |-> of("header"), footer |-> of("footer")]
           c == [request[v] EXCEPT !.at = "resolve", !.failed = failing, !.fragments = g]
<1>3. Advance(v, c)
  BY DEF RenderSystemFragments
<1>4. /\ IsCall(c) /\ c.at = "resolve" /\ c.path = request[v].path /\ c.floor = request[v].floor
      /\ c.open = request[v].open /\ c.failed = failing /\ c.fragments = g
  <2> DEFINE b == [request[v] EXCEPT !.at = "resolve"]
             d == [b EXCEPT !.failed = failing]
  <2>1. c = [d EXCEPT !.fragments = g]
    OBVIOUS
  <2>2. IsCall(b) /\ b.at = "resolve" /\ b.path = request[v].path
        /\ b.floor = request[v].floor /\ b.open = request[v].open
    BY <1>2, CallMoves
  <2> HIDE DEF b
  <2>3. IsCall(d) /\ d.at = "resolve" /\ d.path = request[v].path /\ d.floor = request[v].floor
        /\ d.open = request[v].open /\ d.failed = failing
    BY <2>2, CallFails
  <2> HIDE DEF d, c, g
  <2> QED
    BY <2>1, <2>3, CallReads
<1>5. g.header = of("header") /\ g.footer = of("footer")
  OBVIOUS
<1> HIDE DEF c, g
<1>6. CallHolds(c, page)
  BY <1>2, <1>4, <1>5 DEF CallHolds, FloorHolds, GateNoted, ReadsHold
<1>7. CallsHold' /\ SeenHold'
  BY <1>1, <1>3, <1>6, AdvanceKeeps DEF SiteInv
<1> QED
  BY <1>1, <1>7 DEF SiteInv, PagesHold, CacheHolds

\* The resolver reads the page after the request began, and the gate lets a visitor on
\* who is a member, or where the page is open.
LEMMA ResolvePathKeeps ==
  ASSUME SiteInv, NEW v \in Visitor, NEW member \in BOOLEAN, ResolvePath(v, member)
  PROVE  SiteInv'
<1> DEFINE slug == ParsePath(request[v].path).slug
<1>1. page' = page /\ cache' = cache /\ request[v].at = "resolve" /\ slug \in DOMAIN page
  BY DEF ResolvePath, Published
<1>2. /\ IsCall(request[v]) /\ FloorHolds(request[v], page) /\ GateNoted(request[v], page) /\ ReadsHold(request[v])
  BY <1>1, OnItsWay
<1>3. CASE ~ PassesGate(v, member)
  <2>1. Respond(v, "login", NoDocument, Nowhere)
    BY <1>3 DEF ResolvePath
  <2>2. CallsHold' /\ SeenHold'
    BY <1>1, <2>1, RespondKeeps DEF SiteInv
  <2> QED
    BY <1>1, <2>2 DEF SiteInv, PagesHold, CacheHolds
<1>4. CASE PassesGate(v, member)
  <2>1. PICK o \in BOOLEAN : o = (request[v].open \/ member)
    OBVIOUS
  <2> DEFINE e == [slug |-> slug, revision |-> page[slug].revision]
             c == [request[v] EXCEPT !.at = "serve", !.open = o, !.entry = e]
  <2>2. Advance(v, c)
    BY <1>4, <2>1 DEF ResolvePath
  <2>3. o
    BY <1>2, <1>4, <2>1 DEF PassesGate, GateNoted
  <2>4. e.revision = page[slug].revision
    OBVIOUS
  <2>5. /\ IsCall(c) /\ c.at = "serve" /\ c.path = request[v].path /\ c.floor = request[v].floor
        /\ c.open = o /\ c.failed = request[v].failed /\ c.fragments = request[v].fragments /\ c.entry = e
    <3> DEFINE b == [request[v] EXCEPT !.at = "serve"]
               d == [b EXCEPT !.open = o]
    <3>1. c = [d EXCEPT !.entry = e]
      OBVIOUS
    <3>2. IsCall(b) /\ b.at = "serve" /\ b.path = request[v].path /\ b.floor = request[v].floor
          /\ b.failed = request[v].failed /\ b.fragments = request[v].fragments
      BY <1>2, CallMoves
    <3> HIDE DEF b
    <3>3. IsCall(d) /\ d.at = "serve" /\ d.path = request[v].path /\ d.floor = request[v].floor
          /\ d.failed = request[v].failed /\ d.fragments = request[v].fragments /\ d.open = o
      BY <3>2, CallOpens
    <3> HIDE DEF d, c, e
    <3> QED
      BY <3>1, <3>3, CallFinds
  <2> HIDE DEF c, e
  <2>6. FloorHolds(c, page) /\ GateNoted(c, page)
    BY <1>2, <2>3, <2>5 DEF FloorHolds, GateNoted
  <2>7. c.entry.revision >= c.floor.page
    BY <1>1, <1>2, <2>4, <2>5 DEF FloorHolds, RevisionIn
  <2>8. ReadsHold(c)
    BY <1>1, <1>2, <2>3, <2>5, <2>7 DEF ReadsHold
  <2>9. CallHolds(c, page)
    BY <2>5, <2>6, <2>8 DEF CallHolds
  <2>10. CallsHold' /\ SeenHold'
    BY <1>1, <2>2, <2>9, AdvanceKeeps DEF SiteInv
  <2> QED
    BY <1>1, <2>10 DEF SiteInv, PagesHold, CacheHolds
<1> QED
  BY <1>3, <1>4

\* A request that is answered, or goes on, without a page.
LEMMA MovesKeep ==
  ASSUME SiteInv, NEW v \in Visitor, request[v].at # "idle", NEW a, a \notin {"resolve", "serve", "finish"},
         Advance(v, [request[v] EXCEPT !.at = a]), page' = page, cache' = cache
  PROVE  SiteInv'
<1> DEFINE c == [request[v] EXCEPT !.at = a]
<1>1. IsCall(request[v]) /\ FloorHolds(request[v], page) /\ GateNoted(request[v], page)
  BY OnItsWay
<1>2. IsCall(c) /\ c.at = a /\ c.path = request[v].path
        /\ c.floor = request[v].floor /\ c.open = request[v].open
  BY <1>1, CallMoves
<1>3. Advance(v, c)
  OBVIOUS
<1> HIDE DEF c
<1>4. CallHolds(c, page)
  BY <1>1, <1>2 DEF CallHolds, FloorHolds, GateNoted, ReadsHold
<1>5. CallsHold' /\ SeenHold'
  BY <1>3, <1>4, AdvanceKeeps DEF SiteInv
<1> QED
  BY <1>5 DEF SiteInv, PagesHold, CacheHolds

LEMMA AnswersKeep ==
  ASSUME SiteInv, NEW v \in Visitor, NEW kind, kind # "page", NEW document, NEW to,
         Respond(v, kind, document, to), page' = page, cache' = cache
  PROVE  SiteInv'
<1>1. CallsHold' /\ SeenHold'
  BY RespondKeeps DEF SiteInv
<1> QED
  BY <1>1 DEF SiteInv, PagesHold, CacheHolds

LEMMA NoPageKeeps ==
  ASSUME SiteInv, NEW v \in Visitor, ResolveFails(v) \/ ResolveFindsNothing(v) \/ RenderSystemDocument(v)
  PROVE  SiteInv'
<1>1. CASE ResolveFails(v)
  BY <1>1, MovesKeep DEF ResolveFails
<1>2. CASE ResolveFindsNothing(v)
  <2>1. page' = page /\ cache' = cache /\ request[v].at = "resolve"
    BY <1>2 DEF ResolveFindsNothing
  <2>2. CASE Respond(v, "redirect", NoDocument, redirects[NormalizeFrom(request[v].path)])
    BY <2>1, <2>2, AnswersKeep
  <2>3. CASE Advance(v, [request[v] EXCEPT !.at = "404"])
    BY <2>1, <2>3, MovesKeep
  <2> QED
    BY <1>2, <2>2, <2>3 DEF ResolveFindsNothing
<1>3. CASE RenderSystemDocument(v)
  <2>1. page' = page /\ cache' = cache
    BY <1>3 DEF RenderSystemDocument
  <2>2. PICK kind, document : kind # "page" /\ Respond(v, kind, document, Nowhere)
    BY <1>3 DEF RenderSystemDocument
  <2> QED
    BY <2>1, <2>2, AnswersKeep
<1> QED
  BY <1>1, <1>2, <1>3

\* A document from the cache is made from the revisions that the request has read.
LEMMA ServeCachedKeeps ==
  ASSUME SiteInv, NEW v \in Visitor, ServeCached(v)
  PROVE  SiteInv'
<1> DEFINE path == request[v].path
           e == cache.entries[path]
<1>1. /\ page' = page /\ request[v].at = "serve" /\ path \in DOMAIN cache.entries
      /\ e.version = Version(request[v]) /\ cache' = Touch(cache, path)
      /\ Respond(v, "page", e.html, Nowhere)
  BY DEF ServeCached
<1>2. EntryHolds(e)
  BY <1>1 DEF SiteInv, CacheHolds, CacheOrderly
<1>3. /\ e.html.revision = request[v].entry.revision /\ e.html.header = request[v].fragments.header
      /\ e.html.footer = request[v].fragments.footer
  BY <1>1, <1>2 DEF EntryHolds, Version
<1>4. /\ ReadsHold(request[v])
      /\ NotesOf(request[v]).floor = request[v].floor /\ NotesOf(request[v]).failed = request[v].failed
      /\ NotesOf(request[v]).open = request[v].open
  BY <1>1, OnItsWay
<1> HIDE DEF e
<1>5. PageShown(e.html, NotesOf(request[v]))
  BY <1>1, <1>3, <1>4 DEF PageShown, ReadsHold
<1>6. CallsHold' /\ SeenHold'
  BY <1>1, <1>5, RespondKeeps DEF SiteInv
<1>7. CacheHolds'
  BY <1>1, TouchKeepsOrder DEF SiteInv, CacheHolds
<1> QED
  BY <1>1, <1>6, <1>7 DEF SiteInv, PagesHold

LEMMA RenderBodyKeeps ==
  ASSUME SiteInv, NEW v \in Visitor, RenderBody(v)
  PROVE  SiteInv'
<1> DEFINE i == IF request[v].entry.slug = "blog" THEN ListPublished ELSE <<>>
           b == [request[v] EXCEPT !.at = "finish"]
           c == [b EXCEPT !.items = i]
<1>1. /\ page' = page /\ request[v].at = "serve" /\ cache' = Touch(cache, request[v].path)
      /\ Advance(v, [request[v] EXCEPT !.at = "finish", !.items = i])
  BY DEF RenderBody
<1>2. Advance(v, c)
  <2>1. [request[v] EXCEPT !.at = "finish", !.items = i] = c
    OBVIOUS
  <2> QED
    BY <1>1, <2>1
<1>3. IsCall(request[v]) /\ FloorHolds(request[v], page) /\ GateNoted(request[v], page) /\ ReadsHold(request[v])
  BY <1>1, OnItsWay
<1>4. IsCall(b) /\ b.at = "finish" /\ b.path = request[v].path
        /\ b.floor = request[v].floor /\ b.open = request[v].open
      /\ b.failed = request[v].failed /\ b.fragments = request[v].fragments /\ b.entry = request[v].entry
  BY <1>3, CallMoves
<1> HIDE DEF b, i
<1>5. IsCall(c) /\ c.at = "finish" /\ c.path = request[v].path
        /\ c.floor = request[v].floor /\ c.open = request[v].open
      /\ c.failed = request[v].failed /\ c.fragments = request[v].fragments /\ c.entry = request[v].entry
  BY <1>4, CallLists
<1> HIDE DEF c
<1>6. CallHolds(c, page)
  BY <1>1, <1>3, <1>5 DEF CallHolds, FloorHolds, GateNoted, ReadsHold
<1>7. CallsHold' /\ SeenHold'
  BY <1>1, <1>2, <1>6, AdvanceKeeps DEF SiteInv
<1>8. CacheHolds'
  BY <1>1, TouchKeepsOrder DEF SiteInv, CacheHolds
<1> QED
  BY <1>1, <1>7, <1>8 DEF SiteInv, PagesHold

\* A document is made from what the request has read, and cached under its version.
LEMMA FinishKeeps ==
  ASSUME SiteInv, NEW v \in Visitor, Finish(v)
  PROVE  SiteInv'
<1> DEFINE c == request[v]
           html == MakeDocument(c.entry.slug, c.entry.revision, c.fragments, c.items)
<1>1. /\ page' = page /\ c.at = "finish"
      /\ cache' = CacheSet(cache, c.path, html, Version(c), c.entry.slug)
      /\ Respond(v, "page", html, Nowhere)
  BY DEF Finish
<1>2. /\ html.revision = c.entry.revision /\ html.header = c.fragments.header /\ html.footer = c.fragments.footer
  BY DEF MakeDocument
<1>3. /\ Version(c)[1] = c.entry.revision /\ Version(c)[2] = c.fragments.header
      /\ Version(c)[3] = c.fragments.footer
  BY DEF Version
<1>4. /\ ReadsHold(c)
      /\ NotesOf(c).floor = c.floor /\ NotesOf(c).failed = c.failed /\ NotesOf(c).open = c.open
  BY <1>1, OnItsWay
<1> HIDE DEF html
<1>5. PageShown(html, NotesOf(c))
  BY <1>1, <1>2, <1>4 DEF PageShown, ReadsHold
<1>6. CallsHold' /\ SeenHold'
  BY <1>1, <1>5, RespondKeeps DEF SiteInv
<1>7. CacheHolds'
  <2>1. CacheOrderly(cache) /\ Fits(cache)
    BY DEF SiteInv, CacheHolds
  <2> DEFINE d == CacheSet(cache, c.path, html, Version(c), c.entry.slug)
  <2>2. CacheOrderly(d) /\ Fits(d)
    BY <1>2, <1>3, <2>1, CacheSetKeepsOrder
  <2> HIDE DEF d
  <2>3. cache' = d
    BY <1>1 DEF d
  <2> QED
    BY <2>2, <2>3 DEF CacheHolds
<1> QED
  BY <1>1, <1>6, <1>7 DEF SiteInv, PagesHold

\* What an edit notes for a request in flight.
LEMMA NotedHolds ==
  ASSUME NEW c, NEW before, NEW after, CallHolds(c, before), c # NoRequest,
         NEW e, IsCall(e), e.at = c.at, e.path = c.path, e.floor = c.floor, e.failed = c.failed,
         e.fragments = c.fragments, e.entry = c.entry,
         c.open \/ ParsePath(c.path).slug \notin DOMAIN before \/ ~ after[ParsePath(c.path).slug].gated => e.open,
         DOMAIN after = DOMAIN before, {"header", "footer"} \subseteq DOMAIN before,
         \A s \in DOMAIN before : /\ before[s].revision \in Nat /\ after[s].revision \in Nat
                                  /\ after[s].revision >= before[s].revision
  PROVE  CallHolds(e, after)
<1>1. FloorHolds(c, before) /\ GateNoted(c, before) /\ ReadsHold(c)
  BY DEF CallHolds
<1>2. FloorHolds(e, after)
  BY <1>1 DEF FloorHolds, RevisionIn
<1>3. GateNoted(e, after)
  BY DEF GateNoted
<1>4. ReadsHold(e)
  BY <1>1 DEF ReadsHold
<1> QED
  BY <1>2, <1>3, <1>4 DEF CallHolds

\* An edit that does not take a revision back.
LEMMA EditKeeps ==
  ASSUME SiteInv, NEW s \in Slugs \cup Chrome, NEW entry, PageHolds(entry),
         entry.revision >= page[s].revision, Edit(s, entry)
  PROVE  SiteInv'
<1>1. /\ page' = [page EXCEPT ![s] = entry]
      /\ cache' = cache /\ seen' = seen
  BY DEF Edit
<1>2. /\ DOMAIN page = Slugs \cup Chrome /\ DOMAIN page' = Slugs \cup Chrome
      /\ \A t \in Slugs \cup Chrome : page'[t] = IF t = s THEN entry ELSE page[t]
  BY <1>1 DEF SiteInv, PagesHold
<1>3. \A t \in Slugs \cup Chrome : PageHolds(page[t]) /\ PageHolds(page'[t])
  BY <1>2 DEF SiteInv, PagesHold
<1>4. PagesHold'
  <2>1. \A t \in Slugs \cup Chrome : PageHolds(page'[t])
    BY <1>3
  <2>2. (\A t \in Slugs \cup Chrome : PageHolds(page[t]))'
    BY <2>1 DEF PageHolds
  <2> QED
    BY <1>2, <2>2 DEF PagesHold
<1>5. \A t \in DOMAIN page : /\ page[t].revision \in Nat /\ page'[t].revision \in Nat
                             /\ page'[t].revision >= page[t].revision
  <2>1. \A t \in DOMAIN page : page[t].revision \in Nat /\ page'[t].revision \in Nat
    BY <1>2, <1>3 DEF PageHolds
  <2> QED
    BY <1>2, <2>1
<1> DEFINE posts == {t \in Slugs : page'[t].published /\ ~page'[t].system}
           list == SetToSortSeq(posts, LAMBDA t, u : page'[t].since > page'[u].since)
           noted == Noting(page')
<1>6. request' = [v \in Visitor |-> IF noted[v].lists = {} THEN noted[v] ELSE [noted[v] EXCEPT !.lists = @ \cup {list}]]
  BY DEF Edit
<1>7. ASSUME NEW v \in Visitor PROVE CallHolds(request'[v], page')
  <2>1. CallHolds(request[v], page)
    BY DEF SiteInv, CallsHold
  <2>2. CASE request[v] = NoRequest
    <3>1. noted[v] = NoRequest /\ NoRequest.lists = {}
      BY <2>2 DEF Noting, NoRequest
    <3> HIDE DEF noted, list
    <3>2. request'[v] = NoRequest
      BY <1>6, <3>1
    <3> QED
      BY <3>2, IdleHolds
  <2>3. CASE request[v] # NoRequest
    <3> DEFINE slug == ParsePath(request[v].path).slug
    <3>1. PICK o \in BOOLEAN : o = (request[v].open \/ (slug \notin DOMAIN page \/ ~ page'[slug].gated))
      OBVIOUS
    <3>2. noted[v] = [request[v] EXCEPT !.open = o]
      BY <2>3, <3>1 DEF Noting
    <3> DEFINE d == noted[v]
               l == d.lists \cup {list}
    <3> HIDE DEF noted, list
    <3>3. request'[v] = d \/ request'[v] = [d EXCEPT !.lists = l]
      BY <1>6
    <3>4. DOMAIN page' = DOMAIN page /\ {"header", "footer"} \subseteq DOMAIN page
      BY <1>2 DEF Chrome
    <3> HIDE DEF d, l
    <3>5. d = [request[v] EXCEPT !.open = o]
      BY <3>2 DEF d
    <3>6. /\ IsCall(d) /\ d.at = request[v].at /\ d.path = request[v].path /\ d.floor = request[v].floor
          /\ d.failed = request[v].failed /\ d.fragments = request[v].fragments
          /\ d.entry = request[v].entry /\ d.open = o
      <4> DEFINE x == [request[v] EXCEPT !.open = o]
      <4>1. IsCall(request[v])
        BY <2>1 DEF CallHolds
      <4>2. /\ IsCall(x) /\ x.at = request[v].at /\ x.path = request[v].path /\ x.floor = request[v].floor
            /\ x.failed = request[v].failed /\ x.fragments = request[v].fragments
          /\ x.entry = request[v].entry /\ x.open = o
        BY <4>1, CallOpens
      <4> HIDE DEF x
      <4>3. d = x
        BY <3>5 DEF x
      <4> QED
        BY <4>2, <4>3
    <3> DEFINE x == [d EXCEPT !.lists = l]
    <3>7. /\ IsCall(x) /\ x.at = d.at /\ x.path = d.path /\ x.floor = d.floor
          /\ x.failed = d.failed /\ x.fragments = d.fragments /\ x.entry = d.entry /\ x.open = d.open
      BY <3>6, CallNotes
    <3> DEFINE y == request'[v]
    <3>8. y = d \/ y = x
      BY <3>3
    <3> HIDE DEF x, y
    <3>9. /\ IsCall(y) /\ y.at = request[v].at /\ y.path = request[v].path /\ y.floor = request[v].floor
          /\ y.failed = request[v].failed /\ y.fragments = request[v].fragments
          /\ y.entry = request[v].entry /\ y.open = o
      BY <3>6, <3>7, <3>8
    <3>10. request[v].open \/ slug \notin DOMAIN page \/ ~ page'[slug].gated => y.open
      BY <3>1, <3>9
    <3>11. CallHolds(y, page')
      BY <1>5, <2>1, <2>3, <3>4, <3>9, <3>10, NotedHolds
    <3> QED
      BY <3>11 DEF y
  <2> QED
    BY <2>2, <2>3
<1>8. CallsHold'
  <2>1. DOMAIN request' = Visitor
    <3> HIDE DEF noted, list
    <3> QED
      BY <1>6
  <2>2. (\A v \in Visitor : CallHolds(request[v], page))'
    BY <1>7 DEF CallHolds, FloorHolds, GateNoted, ReadsHold, IsCall
  <2> QED
    BY <2>1, <2>2 DEF CallsHold
<1> QED
  BY <1>1, <1>4, <1>8 DEF SiteInv, SeenHold, CacheHolds

\* The Studio's edits only ever add revisions.
LEMMA EditingKeeps ==
  ASSUME SiteInv, Editing
  PROVE  SiteInv'
<1>1. PICK s \in Edited : SavePage(s) \/ Publish(s) \/ Retire(s) \/ ToggleGate(s)
  BY DEF Editing
<1>2. s \in Slugs \cup Chrome
  BY SiteAssumption
<1> DEFINE e == page[s]
<1>3. PageHolds(e) /\ e.revision \in Nat
  BY <1>2 DEF SiteInv, PagesHold, PageHolds
<1> DEFINE Of(b, g, n, r, i) ==
      [published |-> b, system |-> e.system, gated |-> g, revision |-> n, locale |-> e.locale,
       retired |-> r, since |-> i]
<1>4. CASE SavePage(s)
  <2> DEFINE new == [e EXCEPT !.revision = e.revision + 1]
  <2>1. Edit(s, new)
    BY <1>4 DEF SavePage
  <2>2. e \in [published : {e.published}, system : {e.system}, gated : {e.gated}, revision : Nat,
               locale : {e.locale}, retired : {e.retired}, since : {e.since}]
    BY <1>3 DEF PageHolds
  <2>3. new = Of(e.published, e.gated, e.revision + 1, e.retired, e.since)
    BY <1>3, <2>2
  <2> HIDE DEF new
  <2>4. PageHolds(new) /\ new.revision >= e.revision
    BY <1>3, <2>3 DEF PageHolds
  <2> QED
    BY <1>2, <2>1, <2>4, EditKeeps
<1>5. CASE Publish(s)
  <2>7. PICK b \in BOOLEAN : b = TRUE
    OBVIOUS
  <2> DEFINE n == 1 + Cardinality({t \in Slugs : page[t].published})
             d == [e EXCEPT !.published = b]
             new == [d EXCEPT !.since = n]
  <2>1. Edit(s, new)
    <3>1. Edit(s, [e EXCEPT !.published = TRUE, !.since = n])
      BY <1>5 DEF Publish
    <3>2. [e EXCEPT !.published = TRUE, !.since = n] = new
      BY <2>7
    <3> QED
      BY <3>1, <3>2
  <2> HIDE DEF n
  <2>2. e \in [published : {e.published, b}, system : {e.system}, gated : {e.gated}, revision : Nat,
               locale : {e.locale}, retired : {e.retired}, since : {e.since, n}]
    BY <1>3 DEF PageHolds
  <2>3. d = Of(b, e.gated, e.revision, e.retired, e.since)
    BY <2>2
  <2>4. d \in [published : {e.published, b}, system : {e.system}, gated : {e.gated}, revision : Nat,
               locale : {e.locale}, retired : {e.retired}, since : {e.since, n}]
    BY <1>3, <2>3
  <2> HIDE DEF d
  <2>5. new = Of(b, e.gated, e.revision, e.retired, n)
    BY <2>3, <2>4
  <2> HIDE DEF new
  <2>6. PageHolds(new) /\ new.revision >= e.revision
    BY <1>3, <2>5 DEF PageHolds
  <2> QED
    BY <1>2, <2>1, <2>6, EditKeeps
<1>6. CASE Retire(s)
  <2>7. PICK b \in BOOLEAN : b = FALSE
    OBVIOUS
  <2>8. PICK r \in BOOLEAN : r = TRUE
    OBVIOUS
  <2> DEFINE d == [e EXCEPT !.published = b]
             new == [d EXCEPT !.retired = r]
  <2>1. Edit(s, new)
    <3>1. Edit(s, [e EXCEPT !.published = FALSE, !.retired = TRUE])
      BY <1>6 DEF Retire
    <3>2. [e EXCEPT !.published = FALSE, !.retired = TRUE] = new
      BY <2>7, <2>8
    <3> QED
      BY <3>1, <3>2
  <2>2. e \in [published : {e.published, b}, system : {e.system}, gated : {e.gated}, revision : Nat,
               locale : {e.locale}, retired : {e.retired, r}, since : {e.since}]
    BY <1>3 DEF PageHolds
  <2>3. d = Of(b, e.gated, e.revision, e.retired, e.since)
    BY <2>2
  <2>4. d \in [published : {e.published, b}, system : {e.system}, gated : {e.gated}, revision : Nat,
               locale : {e.locale}, retired : {e.retired, r}, since : {e.since}]
    BY <1>3, <2>3
  <2> HIDE DEF d
  <2>5. new = Of(b, e.gated, e.revision, r, e.since)
    BY <2>3, <2>4
  <2> HIDE DEF new
  <2>6. PageHolds(new) /\ new.revision >= e.revision
    BY <1>3, <2>5 DEF PageHolds
  <2> QED
    BY <1>2, <2>1, <2>6, EditKeeps
<1>7. CASE ToggleGate(s)
  <2>1. PICK g \in BOOLEAN : g = ~ e.gated
    OBVIOUS
  <2> DEFINE new == [e EXCEPT !.gated = g]
  <2>2. Edit(s, new)
    BY <1>7, <2>1 DEF ToggleGate
  <2>3. e \in [published : {e.published}, system : {e.system}, gated : {e.gated, g}, revision : Nat,
               locale : {e.locale}, retired : {e.retired}, since : {e.since}]
    BY <1>3 DEF PageHolds
  <2>4. new = Of(e.published, g, e.revision, e.retired, e.since)
    BY <2>3
  <2> HIDE DEF new
  <2>5. PageHolds(new) /\ new.revision >= e.revision
    BY <1>3, <2>4 DEF PageHolds
  <2> QED
    BY <1>2, <2>2, <2>5, EditKeeps
<1> QED
  BY <1>1, <1>4, <1>5, <1>6, <1>7

\* The invariant holds of the site at the start.
LEMMA SiteInitInv == SiteInit => SiteInv
<1> SUFFICES ASSUME SiteInit PROVE SiteInv
  OBVIOUS
<1>1. PICK locale : page = [s \in Slugs \cup Chrome |-> Entry(s, IF s = "post" THEN locale ELSE "en")]
  BY DEF SiteInit
<1>2. PagesHold
  <2>1. DOMAIN page = Slugs \cup Chrome
    BY <1>1
  <2>2. ASSUME NEW s \in Slugs \cup Chrome PROVE PageHolds(page[s])
    <3> DEFINE l == IF s = "post" THEN locale ELSE "en"
    <3>1. page[s] = Entry(s, l)
      BY <1>1
    <3> HIDE DEF l
    <3>2. PageHolds(Entry(s, l))
      BY DEF Entry, PageHolds
    <3> QED
      BY <3>1, <3>2
  <2> QED
    BY <2>1, <2>2 DEF PagesHold
<1>3. CallsHold
  <2>1. DOMAIN request = Visitor /\ \A v \in Visitor : request[v] = NoRequest
    BY DEF SiteInit
  <2> QED
    BY <2>1, IdleHolds DEF CallsHold
<1>4. SeenHold
  <2>1. DOMAIN seen = Visitor /\ \A v \in Visitor : seen[v] = Nothing
    BY DEF SiteInit
  <2>2. Nothing.kind # "page"
    BY DEF Nothing
  <2> QED
    BY <2>1, <2>2 DEF SeenHold
<1>5. CacheHolds
  <2>1. /\ cache = [entries |-> cache.entries, total |-> cache.total, tags |-> cache.tags]
        /\ DOMAIN cache.entries = {} /\ cache.total = 0 /\ DOMAIN cache.tags = {}
    BY DEF SiteInit, EmptyCache
  <2>2. IsFiniteSet(DOMAIN cache.entries) /\ Cardinality(DOMAIN cache.entries) = 0
    BY <2>1, FS_EmptySet
  <2>3. SizeOf(cache.entries, DOMAIN cache.entries) = 0
    BY <2>1, SizeOfOne
  <2> QED
    BY <2>1, <2>2, <2>3, SiteAssumption DEF CacheHolds, CacheOrderly, Indexed, Fits
<1> QED
  BY <1>2, <1>3, <1>4, <1>5 DEF SiteInv

\* Every step keeps the invariant.
LEMMA SiteStepInv == SiteInv /\ [SiteNext]_siteVars => SiteInv'
<1> SUFFICES ASSUME SiteInv, [SiteNext]_siteVars PROVE SiteInv'
  OBVIOUS
<1>1. CASE \E v \in Visitor : RequestStep(v)
  <2>1. PICK v \in Visitor : RequestStep(v)
    BY <1>1
  <2>2. CASE Enter(v)
    BY <2>2, AskKeeps DEF Enter
  <2>3. CASE FollowRedirect(v)
    BY <2>3, AskKeeps DEF FollowRedirect
  <2>4. CASE \E device \in Devices : Follow(v, device)
    <3>1. PICK path, from : Ask(v, path, from)
      BY <2>4 DEF Follow
    <3> QED
      BY <3>1, AskKeeps
  <2>5. CASE \E expired \in BOOLEAN : Guard(v, expired)
    BY <2>5, GuardKeeps
  <2>6. CASE \E failing \in SUBSET Chrome : RenderSystemFragments(v, failing)
    BY <2>6, FragmentsKeep
  <2>7. CASE \E member \in BOOLEAN : ResolvePath(v, member)
    BY <2>7, ResolvePathKeeps
  <2>8. CASE ResolveFails(v) \/ ResolveFindsNothing(v) \/ RenderSystemDocument(v)
    BY <2>8, NoPageKeeps
  <2>9. CASE ServeCached(v)
    BY <2>9, ServeCachedKeeps
  <2>10. CASE RenderBody(v)
    BY <2>10, RenderBodyKeeps
  <2>11. CASE Finish(v)
    BY <2>11, FinishKeeps
  <2> QED
    BY <2>1, <2>2, <2>3, <2>4, <2>5, <2>6, <2>7, <2>8, <2>9, <2>10, <2>11 DEF RequestStep
<1>2. CASE Editing
  BY <1>2, EditingKeeps
<1>3. CASE Operate
  BY <1>3 DEF Operate, SiteInv, PagesHold, CallsHold, SeenHold, CacheHolds
<1>4. CASE UNCHANGED siteVars
  BY <1>4 DEF siteVars, SiteInv, PagesHold, CallsHold, SeenHold, CacheHolds
<1> QED
  BY <1>1, <1>2, <1>3, <1>4 DEF SiteNext

\* The cache is in order, no request has read anything older than its beginning, and
\* every page that was sent is as current as that (apps/site/src/app.ts, cache.ts).
THEOREM SiteInvHolds == SiteSpec => []SiteInv
  BY SiteInitInv, SiteStepInv, PTL DEF SiteSpec

\* Whatever the Studio edits while a visitor waits, and whether the page comes from the
\* render cache or not, it shows no older revision of the page, the header or the footer
\* than the one stored when the request began (app.ts, the version key of the catch-all route).
THEOREM EditsAreLive == SiteSpec => []EditsGoLive
<1>1. SiteInv => EditsGoLive
  BY DEF SiteInv, SeenHold, EditsGoLive, IsPage, Shown, PageShown
<1> QED
  BY <1>1, SiteInvHolds, PTL

\* A page for members that stays so for as long as the request lasts is sent to members
\* only, cached or not (app.ts, the gate before the cache).
THEOREM GateHolds == SiteSpec => []MembersOnly
<1>1. SiteInv => MembersOnly
  BY DEF SiteInv, SeenHold, MembersOnly, IsPage, PageShown
<1> QED
  BY <1>1, SiteInvHolds, PTL

\* Through replacements, refusals and evictions the byte count of the render cache is that
\* of its entries, within its budget, and its tags name just the paths of its entries
\* (cache.ts), for any budget, cap and paths.
THEOREM CacheIsExact == SiteSpec => []CacheAccounts
<1>1. SiteInv => CacheAccounts
  BY DEF SiteInv, CacheHolds, CacheOrderly, Indexed, CacheAccounts
<1> QED
  BY <1>1, SiteInvHolds, PTL
==============================================================================
