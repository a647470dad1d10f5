--------------------------- MODULE Contexts_proofs ---------------------------
(***************************************************************************)
(* The context directory for any number of names, pointers and sessions.   *)
(* The invariant splits by session kind: with no session memory is empty;  *)
(* in a compiler the directory and CONTEXT_DIR are inverse to each other;  *)
(* in an API session what memory says of a plain name is what the store    *)
(* says of it.                                                             *)
(***************************************************************************)
EXTENDS Contexts, TLAPS

OffIsEmpty ==
    /\ kind = "off" => dir = EmptyDir /\ mem = EmptyMem /\ top = 1
    /\ session = 0 => kind = "off" /\ \A n \in Names : nameKey[n] = 0

PcOfKind ==
    /\ pc = "upload" => kind = "compile"
    /\ pc = "register" => kind = "api"

(* The directory and CONTEXT_DIR are inverse to each other. *)
MemoryExact ==
    /\ \A n \in Names \cup {NoName} : mem[n] # 0 => dir[mem[n]].name = n
    /\ \A i \in 1 .. (top - 1) : dir[i].ptr = i /\ mem[dir[i].name] = i

(* What TryContext said of a plain name is stored, and so is what memory   *)
(* says of it in an API session.                                           *)
PlainNamesStored ==
    \A n \in Plain :
        /\ granted[n] # 0 => nameKey[n] = granted[n]
        /\ kind = "api" /\ mem[n] # 0 => nameKey[n] = mem[n]
        /\ pc = "register" /\ arg = n => mem[n] = 0 /\ nameKey[n] = top

DirInv ==
    /\ ContextTypeOK
    /\ dir[0] = Blank
    /\ PtrIsIndex
    /\ OffIsEmpty
    /\ PcOfKind
    /\ kind = "compile" => MemoryExact

ContextInv ==
    /\ DirInv
    /\ PtrKeysCurrent
    /\ FirstUploadExact
    /\ PlainNamesStored
-----------------------------------------------------------------------------
(* Registering a name: the directory grows by one entry or not at all. *)
LEMMA RegisterAppends ==
    ASSUME DirInv, NEW n \in Names \cup {NoName}, Register(n), mem[n] = 0
    PROVE  /\ top' = top + 1 /\ top' \in 1 .. (MaxPtr + 1)
           /\ dir' \in [0 .. (top' - 1) -> Entry]
           /\ mem' \in [Names \cup {NoName} -> 0 .. (top' - 1)]
           /\ mem' = [mem EXCEPT ![n] = top]
           /\ dir'[top] = [name |-> n, ptr |-> top]
           /\ \A i \in 0 .. (top - 1) : dir'[i] = dir[i]
<1>1. /\ top \in 1 .. (MaxPtr + 1) /\ MaxPtr \in Nat \ {0}
      /\ dir \in [0 .. (top - 1) -> Entry]
      /\ mem \in [Names \cup {NoName} -> 0 .. (top - 1)]
  BY NamesAssumption DEF DirInv, ContextTypeOK
<1>2. top <= MaxPtr /\ dir' = Extend(n) /\ mem' = [mem EXCEPT ![n] = top] /\ top' = top + 1
  BY DEF Register
<1>3. top' \in 1 .. (MaxPtr + 1) /\ top' - 1 = top
  BY <1>1, <1>2
<1>4. [name |-> n, ptr |-> top] \in Entry
  BY <1>1, <1>2 DEF Entry
<1>5. \A i \in 0 .. top : (IF i = top THEN [name |-> n, ptr |-> top] ELSE dir[i]) \in Entry
  BY <1>1, <1>4
<1>6. dir' \in [0 .. top -> Entry]
  BY <1>2, <1>5 DEF Extend
<1>7. mem' \in [Names \cup {NoName} -> 0 .. top]
  BY <1>1, <1>2
<1>8. dir'[top] = [name |-> n, ptr |-> top] /\ \A i \in 0 .. (top - 1) : dir'[i] = dir[i]
  BY <1>1, <1>2 DEF Extend
<1> QED
  BY <1>2, <1>3, <1>6, <1>7, <1>8

LEMMA RegisterKeeps ==
    ASSUME DirInv, NEW n \in Names \cup {NoName}, Register(n)
    PROVE  /\ top' \in 1 .. (MaxPtr + 1) /\ top <= top'
           /\ dir' \in [0 .. (top' - 1) -> Entry]
           /\ mem' \in [Names \cup {NoName} -> 0 .. (top' - 1)]
           /\ dir'[0] = Blank
           /\ PtrIsIndex'
           /\ mem'[n] # 0
           /\ mem[n] = 0 => mem'[n] = top
           /\ \A m \in Names \cup {NoName} : mem[m] # 0 \/ m # n => mem'[m] = mem[m]
           /\ MemoryExact => MemoryExact'
<1>1. /\ top \in 1 .. (MaxPtr + 1) /\ MaxPtr \in Nat \ {0}
      /\ dir \in [0 .. (top - 1) -> Entry]
      /\ mem \in [Names \cup {NoName} -> 0 .. (top - 1)]
  BY NamesAssumption DEF DirInv, ContextTypeOK
<1>2. CASE mem[n] # 0
  <2>1. UNCHANGED <<dir, mem, top>>
    BY <1>2 DEF Register, memory
  <2> QED
    BY <1>1, <1>2, <2>1 DEF DirInv, PtrIsIndex, MemoryExact
<1>3. CASE mem[n] = 0
  <2>1. /\ top' = top + 1 /\ top' \in 1 .. (MaxPtr + 1)
        /\ dir' \in [0 .. (top' - 1) -> Entry]
        /\ mem' \in [Names \cup {NoName} -> 0 .. (top' - 1)]
        /\ mem' = [mem EXCEPT ![n] = top]
        /\ dir'[top] = [name |-> n, ptr |-> top]
        /\ \A i \in 0 .. (top - 1) : dir'[i] = dir[i]
    BY <1>3, RegisterAppends
  <2>2. dir'[0] = Blank
    BY <1>1, <2>1 DEF DirInv
  <2>3. PtrIsIndex'
    <3>1. ASSUME NEW i \in 0 .. (top' - 1) PROVE dir'[i].ptr = i \/ dir'[i] = Blank
      <4>1. i = top \/ i \in 0 .. (top - 1)
        BY <1>1, <2>1
      <4> QED
        BY <1>1, <2>1, <4>1 DEF DirInv, PtrIsIndex
    <3>2. DOMAIN dir' = 0 .. (top' - 1)
      BY <2>1
    <3> QED
      BY <3>1, <3>2 DEF PtrIsIndex
  <2>4. mem'[n] = top /\ \A m \in Names \cup {NoName} : m # n => mem'[m] = mem[m]
    BY <1>1, <2>1
  <2>5. ASSUME MemoryExact PROVE MemoryExact'
    <3>1. ASSUME NEW m \in Names \cup {NoName}, mem'[m] # 0
          PROVE  dir'[mem'[m]].name = m
      <4>1. CASE m = n
        BY <2>1, <2>4, <4>1
      <4>2. CASE m # n
        <5>1. mem'[m] = mem[m] /\ mem[m] \in 0 .. (top - 1)
          BY <1>1, <2>4, <4>2
        <5> QED
          BY <2>1, <2>5, <3>1, <5>1 DEF MemoryExact
      <4> QED
        BY <4>1, <4>2
    <3>2. ASSUME NEW i \in 1 .. (top' - 1)
          PROVE  dir'[i].ptr = i /\ mem'[dir'[i].name] = i
      <4>1. CASE i = top
        BY <2>1, <2>4, <4>1
      <4>2. CASE i # top
        <5>1. i \in 1 .. (top - 1) /\ i \in 0 .. (top - 1)
          BY <1>1, <2>1, <4>2
        <5>2. dir'[i] = dir[i] /\ dir[i].ptr = i /\ mem[dir[i].name] = i
              /\ dir[i].name \in Names \cup {NoName}
          BY <1>1, <2>1, <2>5, <5>1 DEF MemoryExact, Entry
        <5>3. dir[i].name # n
          BY <1>3, <5>1, <5>2
        <5> QED
          BY <2>4, <5>2, <5>3
      <4> QED
        BY <4>1, <4>2
    <3> QED
      BY <3>1, <3>2 DEF MemoryExact
  <2> QED
    BY <1>1, <1>3, <2>1, <2>2, <2>3, <2>4, <2>5
<1> QED
  BY <1>2, <1>3

(* Restoring a name at its stored pointer, padding as needed. *)
LEMMA RestoreKeeps ==
    ASSUME DirInv, NEW n \in Names, TryRestore(n)
    PROVE  /\ top' \in 1 .. (MaxPtr + 1) /\ top <= top'
           /\ dir' \in [0 .. (top' - 1) -> Entry]
           /\ mem' \in [Names \cup {NoName} -> 0 .. (top' - 1)]
           /\ mem' = [mem EXCEPT ![n] = nameKey[n]]
           /\ dir'[0] = Blank
           /\ PtrIsIndex'
<1> DEFINE p == nameKey[n]
<1>1. /\ top \in 1 .. (MaxPtr + 1) /\ MaxPtr \in Nat \ {0}
      /\ dir \in [0 .. (top - 1) -> Entry]
      /\ mem \in [Names \cup {NoName} -> 0 .. (top - 1)]
      /\ dir[0] = Blank
  BY NamesAssumption DEF DirInv, ContextTypeOK
<1>2. p \in 1 .. MaxPtr /\ dir' = Restored(n, p) /\ mem' = [mem EXCEPT ![n] = p]
      /\ top' = IF p >= top THEN p + 1 ELSE top
  BY <1>1 DEF TryRestore, DirInv, ContextTypeOK
<1> HIDE DEF p
<1>3. /\ top' \in 1 .. (MaxPtr + 1) /\ top <= top' /\ p \in 1 .. (top' - 1)
      /\ (IF p < top THEN top - 1 ELSE p) = top' - 1
  BY <1>1, <1>2
<1>4. [name |-> n, ptr |-> p] \in Entry /\ Blank \in Entry
  BY <1>1, <1>2 DEF Entry, Blank
<1>5. dir' = [i \in 0 .. (top' - 1) |->
                IF i = p THEN [name |-> n, ptr |-> p] ELSE IF i < top THEN dir[i] ELSE Blank]
  BY <1>2, <1>3 DEF Restored
<1>6. ASSUME NEW i \in 0 .. (top' - 1)
      PROVE  /\ dir'[i] \in Entry
             /\ dir'[i].ptr = i \/ dir'[i] = Blank
  <2>1. CASE i = p
    BY <1>4, <1>5, <2>1
  <2>2. CASE i # p /\ i < top
    <3>1. i \in 0 .. (top - 1) /\ dir'[i] = dir[i]
      BY <1>1, <1>5, <2>2
    <3> QED
      BY <1>1, <3>1 DEF DirInv, PtrIsIndex
  <2>3. CASE i # p /\ ~(i < top)
    BY <1>4, <1>5, <2>3
  <2> QED
    BY <2>1, <2>2, <2>3
<1>7. dir' \in [0 .. (top' - 1) -> Entry]
  BY <1>5, <1>6
<1>8. PtrIsIndex'
  BY <1>6, <1>7 DEF PtrIsIndex
<1>9. dir'[0] = Blank
  <2>1. 0 \in 0 .. (top' - 1) /\ 0 < top /\ 0 # p
    BY <1>1, <1>2, <1>3
  <2> QED
    BY <1>1, <1>5, <2>1
<1>10. mem' \in [Names \cup {NoName} -> 0 .. (top' - 1)]
  BY <1>1, <1>2, <1>3
<1>11. mem' = [mem EXCEPT ![n] = nameKey[n]]
  BY <1>2 DEF p
<1> QED
  BY <1>3, <1>7, <1>8, <1>9, <1>10, <1>11

(* An entry with a name carries the pointer it is found under. *)
LEMMA NamedEntry ==
    ASSUME DirInv, NEW i \in 0 .. (top - 1), dir[i].name # NoName
    PROVE  i \in Ptrs /\ dir[i].ptr = i /\ dir[i].name \in Names
<1>1. top \in 1 .. (MaxPtr + 1) /\ MaxPtr \in Nat /\ dir \in [0 .. (top - 1) -> Entry]
      /\ dir[0] = Blank
  BY NamesAssumption DEF DirInv, ContextTypeOK
<1>2. dir[i] # Blank
  BY DEF Blank
<1>3. i # 0
  BY <1>1, <1>2
<1>4. i \in DOMAIN dir /\ dir[i] \in Entry
  BY <1>1
<1> QED
  BY <1>1, <1>2, <1>3, <1>4 DEF DirInv, PtrIsIndex, Ptrs, Entry

LEMMA UploadTypes ==
    ASSUME ContextTypeOK, NEW n, NEW p,
           n = NoName \/ (n \in Names /\ p \in Ptrs), UploadContext(n, p)
    PROVE  nameKey' \in [Names -> 0 .. MaxPtr] /\ ptrKey' \in [Ptrs -> Names \cup {NoName}]
<1>1. nameKey \in [Names -> 0 .. MaxPtr] /\ ptrKey \in [Ptrs -> Names \cup {NoName}]
  BY DEF ContextTypeOK
<1>2. CASE n = NoName \/ nameKey[n] # 0
  BY <1>1, <1>2 DEF UploadContext, store
<1>3. CASE ~(n = NoName \/ nameKey[n] # 0)
  <2>1. n \in Names /\ p \in Ptrs /\ p \in 0 .. MaxPtr
    BY <1>3, NamesAssumption DEF Ptrs
  <2>2. nameKey' = [nameKey EXCEPT ![n] = p] /\ ptrKey' = [ptrKey EXCEPT ![p] = n]
    BY <1>3 DEF UploadContext
  <2> QED
    BY <1>1, <2>1, <2>2
<1> QED
  BY <1>2, <1>3
-----------------------------------------------------------------------------
LEMMA InitDirInv == Init => DirInv
BY NamesAssumption DEF Init, DirInv, ContextTypeOK, PtrIsIndex, OffIsEmpty, PcOfKind,
   EmptyDir, EmptyMem, Blank, Entry, Ptrs, NoArg

(* A step that leaves memory alone and the types right keeps the invariant.*)
LEMMA MemoryUntouched ==
    ASSUME DirInv, ContextTypeOK', UNCHANGED memory, OffIsEmpty', PcOfKind',
           kind' = "compile" => kind = "compile"
    PROVE  DirInv'
<1>1. UNCHANGED <<dir, mem, top>>
  BY DEF memory
<1> QED
  BY <1>1 DEF DirInv, PtrIsIndex, MemoryExact

LEMMA DirInvStep ==
    ASSUME DirInv, [Next]_vars
    PROVE  DirInv'
<1>1. ASSUME StartApi PROVE DirInv'
  <2>1. kind' = "api" /\ session' = session + 1 /\ UNCHANGED <<memory, store, pc, arg, granted>>
        /\ kind = "off"
    BY <1>1 DEF StartApi
  <2>2. ContextTypeOK' /\ OffIsEmpty' /\ PcOfKind'
    BY <2>1 DEF DirInv, ContextTypeOK, OffIsEmpty, PcOfKind, memory, store
  <2> QED
    BY <2>1, <2>2, MemoryUntouched
<1>2. ASSUME StartCompile PROVE DirInv'
  <2>1. AnyName \in Names \cup {NoName} /\ Register(AnyName)
    BY <1>2, NamesAssumption DEF StartCompile
  <2>2. /\ kind = "off" /\ kind' = "compile" /\ session' = session + 1
        /\ UNCHANGED <<nameKey, ptrKey, pc, arg, granted>>
    BY <1>2 DEF StartCompile, store
  <2>3. MemoryExact
    BY <2>2 DEF DirInv, OffIsEmpty, MemoryExact, EmptyDir, EmptyMem
  <2>4. pc = "idle"
    BY <2>2 DEF DirInv, PcOfKind, ContextTypeOK
  <2>5. /\ top' \in 1 .. (MaxPtr + 1)
        /\ dir' \in [0 .. (top' - 1) -> Entry]
        /\ mem' \in [Names \cup {NoName} -> 0 .. (top' - 1)]
        /\ PtrIsIndex' /\ dir'[0] = Blank /\ MemoryExact'
    BY <2>1, <2>3, RegisterKeeps
  <2>6. session' \in Nat /\ session' # 0
    BY <2>2 DEF DirInv, ContextTypeOK
  <2>7. ContextTypeOK'
    BY <2>2, <2>4, <2>5, <2>6 DEF DirInv, ContextTypeOK
  <2> QED
    BY <2>2, <2>4, <2>5, <2>6, <2>7 DEF DirInv, OffIsEmpty, PcOfKind
<1>3. ASSUME Stop PROVE DirInv'
  <2>1. /\ kind' = "off" /\ dir' = EmptyDir /\ mem' = EmptyMem /\ top' = 1
        /\ pc' = "idle" /\ arg' = NoArg /\ kind # "off"
        /\ UNCHANGED <<session, nameKey, ptrKey, granted>>
    BY <1>3 DEF Stop, store
  <2>2. dir' \in [0 .. (top' - 1) -> Entry] /\ mem' \in [Names \cup {NoName} -> 0 .. (top' - 1)]
        /\ top' \in 1 .. (MaxPtr + 1)
    BY <2>1, NamesAssumption DEF EmptyDir, EmptyMem, Blank, Entry
  <2>3. ContextTypeOK'
    BY <2>1, <2>2 DEF DirInv, ContextTypeOK
  <2>4. PtrIsIndex' /\ dir'[0] = Blank
    BY <2>1 DEF PtrIsIndex, EmptyDir
  <2> QED
    BY <2>1, <2>3, <2>4 DEF DirInv, OffIsEmpty, PcOfKind
<1>4. ASSUME NEW n \in Names \cup {NoName}, Register(n), kind = "compile", pc = "idle",
             UNCHANGED <<kind, session, store, pc, arg, granted>>
      PROVE  DirInv'
  <2>1. UNCHANGED <<nameKey, ptrKey>>
    BY <1>4 DEF store
  <2>2. ContextTypeOK' /\ PtrIsIndex' /\ dir'[0] = Blank /\ MemoryExact'
    BY <1>4, <2>1, RegisterKeeps DEF DirInv, ContextTypeOK
  <2> QED
    BY <1>4, <2>1, <2>2 DEF DirInv, OffIsEmpty, PcOfKind
<1>5. ASSUME NEW n \in Names, RegisterContext(n) PROVE DirInv'
  BY <1>4, <1>5, NamesAssumption DEF RegisterContext
<1>6. ASSUME NEW n \in Names \cup {NoName}, MergeContextLists(n) PROVE DirInv'
  BY <1>4, <1>6 DEF MergeContextLists
<1>7. ASSUME BeginUpload PROVE DirInv'
  <2>1. ContextTypeOK' /\ OffIsEmpty' /\ PcOfKind'
    BY <1>7 DEF BeginUpload, DirInv, ContextTypeOK, OffIsEmpty, PcOfKind, memory, store
  <2> QED
    BY <1>7, <2>1, MemoryUntouched DEF BeginUpload
<1>8. ASSUME UploadNext PROVE DirInv'
  <2>1. /\ pc = "upload" /\ arg \in 0 .. (top - 1) /\ arg' = arg + 1 /\ arg' \in 0 .. top
        /\ UploadContext(dir[arg].name, dir[arg].ptr)
        /\ UNCHANGED <<kind, session, memory, pc, granted>>
    BY <1>8 DEF UploadNext, DirInv, ContextTypeOK
  <2>2. dir[arg].name = NoName \/ (dir[arg].name \in Names /\ dir[arg].ptr \in Ptrs)
    BY <2>1, NamedEntry
  <2>3. nameKey' \in [Names -> 0 .. MaxPtr] /\ ptrKey' \in [Ptrs -> Names \cup {NoName}]
    BY <2>1, <2>2, UploadTypes DEF DirInv
  <2>4. ContextTypeOK'
    BY <2>1, <2>3 DEF DirInv, ContextTypeOK, memory
  <2>5. OffIsEmpty' /\ PcOfKind'
    BY <2>1 DEF DirInv, OffIsEmpty, PcOfKind, memory
  <2> QED
    BY <2>1, <2>4, <2>5, MemoryUntouched
<1>9. ASSUME NEW n \in Names, TryKnown(n) PROVE DirInv'
  <2>1. granted' \in [Names -> 0 .. MaxPtr]
    BY <1>9, NamesAssumption DEF TryKnown, DirInv, ContextTypeOK
  <2>2. ContextTypeOK' /\ OffIsEmpty' /\ PcOfKind'
    BY <1>9, <2>1 DEF TryKnown, DirInv, ContextTypeOK, OffIsEmpty, PcOfKind, memory, store
  <2> QED
    BY <1>9, <2>2, MemoryUntouched DEF TryKnown
<1>10. ASSUME NEW n \in Names, TryRestore(n) PROVE DirInv'
  <2>1. /\ kind = "api" /\ pc = "idle" /\ granted' = [granted EXCEPT ![n] = nameKey[n]]
        /\ UNCHANGED <<kind, session, nameKey, ptrKey, pc, arg>>
    BY <1>10 DEF TryRestore, CanTry, store
  <2>2. ContextTypeOK' /\ PtrIsIndex' /\ dir'[0] = Blank
    BY <1>10, <2>1, RestoreKeeps DEF DirInv, ContextTypeOK
  <2> QED
    BY <2>1, <2>2 DEF DirInv, OffIsEmpty, PcOfKind
<1>11. ASSUME NEW n \in Names, TryUpload(n) PROVE DirInv'
  <2>1. /\ kind = "api" /\ top <= MaxPtr /\ pc' = "register" /\ arg' = n
        /\ UploadContext(n, top) /\ UNCHANGED <<kind, session, memory, granted>>
    BY <1>11 DEF TryUpload, CanTry
  <2>2. nameKey' \in [Names -> 0 .. MaxPtr] /\ ptrKey' \in [Ptrs -> Names \cup {NoName}]
    <3>1. ContextTypeOK
      BY DEF DirInv
    <3>2. top \in Ptrs
      BY <2>1, <3>1, NamesAssumption DEF ContextTypeOK, Ptrs
    <3> QED
      BY <2>1, <3>1, <3>2, UploadTypes
  <2>3. ContextTypeOK'
    BY <2>1, <2>2 DEF DirInv, ContextTypeOK, memory
  <2>4. session # 0 /\ OffIsEmpty' /\ PcOfKind'
    BY <2>1 DEF DirInv, OffIsEmpty, PcOfKind, memory
  <2> QED
    BY <2>1, <2>3, <2>4, MemoryUntouched
<1>12. ASSUME TryRegister PROVE DirInv'
  <2>1. /\ pc = "register" /\ kind = "api" /\ arg \in Names
        /\ pc' = "idle" /\ arg' = NoArg /\ UNCHANGED <<kind, session, nameKey, ptrKey>>
    BY <1>12 DEF TryRegister, DirInv, PcOfKind, ContextTypeOK, store
  <2>2. CASE Canon[arg] = NoName
    <3>1. granted' = [granted EXCEPT ![arg] = 0] /\ UNCHANGED memory
      BY <1>12, <2>2 DEF TryRegister
    <3> 0 \in 0 .. MaxPtr
      BY NamesAssumption
    <3>2. ContextTypeOK' /\ OffIsEmpty' /\ PcOfKind'
      BY <2>1, <3>1 DEF DirInv, ContextTypeOK, OffIsEmpty, PcOfKind, memory
    <3> QED
      BY <2>1, <3>1, <3>2, MemoryUntouched
  <2>3. CASE Canon[arg] # NoName
    <3> DEFINE c == Canon[arg]
    <3>1. c \in Names \cup {NoName} /\ Register(c)
          /\ granted' = [granted EXCEPT ![arg] = mem'[c]]
      BY <1>12, <2>1, <2>3, NamesAssumption DEF TryRegister
    <3> HIDE DEF c
    <3>2. /\ top' \in 1 .. (MaxPtr + 1)
          /\ dir' \in [0 .. (top' - 1) -> Entry]
          /\ mem' \in [Names \cup {NoName} -> 0 .. (top' - 1)]
          /\ dir'[0] = Blank /\ PtrIsIndex'
      BY <3>1, RegisterKeeps
    <3>3. granted' \in [Names -> 0 .. MaxPtr]
      <4>1. mem'[c] \in 0 .. MaxPtr
        BY <3>1, <3>2, NamesAssumption
      <4> QED
        BY <2>1, <3>1, <4>1 DEF DirInv, ContextTypeOK
    <3>4. ContextTypeOK'
      BY <2>1, <3>2, <3>3 DEF DirInv, ContextTypeOK
    <3> QED
      BY <2>1, <3>2, <3>4 DEF DirInv, OffIsEmpty, PcOfKind
  <2> QED
    BY <2>2, <2>3
<1>13. CASE UNCHANGED vars
  BY <1>13 DEF vars, memory, store, DirInv, ContextTypeOK, PtrIsIndex, OffIsEmpty,
     PcOfKind, MemoryExact
<1> QED
  BY <1>1, <1>2, <1>3, <1>5, <1>6, <1>7, <1>8, <1>9, <1>10, <1>11, <1>12, <1>13 DEF Next

-----------------------------------------------------------------------------
(* The one transaction that writes the keys: a name is written once, and a *)
(* pointer key always names a context that leads back to it.               *)
LEMMA UploadKeeps ==
    ASSUME ContextTypeOK, PtrKeysCurrent, NEW n, NEW p,
           n = NoName \/ (n \in Names /\ p \in Ptrs), UploadContext(n, p)
    PROVE  /\ PtrKeysCurrent'
           /\ \A m \in Names : nameKey[m] # 0 \/ m # n => nameKey'[m] = nameKey[m]
           /\ \A m \in Names : nameKey[m] = 0 /\ m = n => nameKey'[m] = p /\ ptrKey'[p] = n
           /\ \A q \in Ptrs : q # p => ptrKey'[q] = ptrKey[q]
           /\ UNCHANGED ptrKey \/ (n \in Names /\ p \in Ptrs /\ nameKey[n] = 0)
<1>1. nameKey \in [Names -> 0 .. MaxPtr] /\ ptrKey \in [Ptrs -> Names \cup {NoName}]
  BY DEF ContextTypeOK
<1>2. CASE n = NoName \/ nameKey[n] # 0
  BY <1>1, <1>2, NamesAssumption DEF UploadContext, store, PtrKeysCurrent
<1>3. CASE ~(n = NoName \/ nameKey[n] # 0)
  <2>1. n \in Names /\ p \in Ptrs
    BY <1>3
  <2>2. nameKey' = [nameKey EXCEPT ![n] = p] /\ ptrKey' = [ptrKey EXCEPT ![p] = n]
    BY <1>3 DEF UploadContext
  <2>3. /\ nameKey'[n] = p /\ \A m \in Names : m # n => nameKey'[m] = nameKey[m]
        /\ ptrKey'[p] = n /\ \A q \in Ptrs : q # p => ptrKey'[q] = ptrKey[q]
    BY <1>1, <2>1, <2>2
  <2>4. ASSUME NEW q \in Ptrs, ptrKey'[q] # NoName PROVE nameKey'[ptrKey'[q]] = q
    <3>1. CASE q = p
      BY <2>3, <3>1
    <3>2. CASE q # p
      <4>1. ptrKey'[q] = ptrKey[q] /\ ptrKey[q] \in Names
        BY <1>1, <2>3, <2>4, <3>2
      <4>2. nameKey[ptrKey[q]] = q /\ q # 0
        BY <2>4, <4>1 DEF PtrKeysCurrent, Ptrs
      <4> QED
        BY <1>3, <2>1, <2>3, <4>1, <4>2
    <3> QED
      BY <3>1, <3>2
  <2> QED
    BY <1>3, <2>1, <2>3, <2>4 DEF PtrKeysCurrent
<1> QED
  BY <1>2, <1>3

LEMMA StoreUntouched ==
    ASSUME UNCHANGED store, PtrKeysCurrent
    PROVE  PtrKeysCurrent' /\ \A n \in Names : nameKey'[n] = nameKey[n]
BY DEF store, PtrKeysCurrent

(* What every step does to the store. *)
LEMMA StoreStep ==
    ASSUME DirInv, PtrKeysCurrent, [Next]_vars
    PROVE  PtrKeysCurrent' /\ \A n \in Names : nameKey[n] # 0 => nameKey'[n] = nameKey[n]
<1>1. CASE UNCHANGED store
  BY <1>1, StoreUntouched
<1>2. CASE UploadNext
  <2>1. arg \in 0 .. (top - 1) /\ UploadContext(dir[arg].name, dir[arg].ptr)
    BY <1>2 DEF UploadNext, DirInv, ContextTypeOK
  <2>2. dir[arg].name = NoName \/ (dir[arg].name \in Names /\ dir[arg].ptr \in Ptrs)
    BY <2>1, NamedEntry
  <2> QED
    BY <2>1, <2>2, UploadKeeps DEF DirInv
<1>3. ASSUME NEW n \in Names, TryUpload(n)
      PROVE  PtrKeysCurrent' /\ \A m \in Names : nameKey[m] # 0 => nameKey'[m] = nameKey[m]
  <2>1. UploadContext(n, top) /\ top \in Ptrs
    BY <1>3, NamesAssumption DEF TryUpload, DirInv, ContextTypeOK, Ptrs
  <2> QED
    BY <2>1, UploadKeeps DEF DirInv
<1>4. UNCHANGED store \/ UploadNext \/ \E n \in Names : TryUpload(n)
  BY DEF Next, vars, StartApi, StartCompile, Stop, RegisterContext, MergeContextLists,
     BeginUpload, TryKnown, TryRestore, TryRegister
<1> QED
  BY <1>1, <1>2, <1>3, <1>4

(* What a compiler stores in the first session is its directory. *)
LEMMA FirstUploadStep ==
    ASSUME DirInv, PtrKeysCurrent, FirstUploadExact, [Next]_vars
    PROVE  FirstUploadExact'
<1> SUFFICES ASSUME session' = 1, kind' = "compile"
             PROVE  \A n \in Names : nameKey'[n] # 0 => nameKey'[n] = mem'[n] /\ ptrKey'[mem'[n]] = n
  BY DEF FirstUploadExact
<1>1. CASE StartCompile
  <2>1. session = 0 /\ UNCHANGED store
    BY <1>1 DEF StartCompile, DirInv, ContextTypeOK
  <2> QED
    BY <2>1 DEF store, DirInv, OffIsEmpty
<1>2. ASSUME NEW c \in Names \cup {NoName}, Register(c), kind = "compile", session = 1,
             UNCHANGED store
      PROVE  \A n \in Names : nameKey'[n] # 0 => nameKey'[n] = mem'[n] /\ ptrKey'[mem'[n]] = n
  <2>1. ASSUME NEW n \in Names, nameKey[n] # 0
        PROVE  nameKey'[n] = mem'[n] /\ ptrKey'[mem'[n]] = n
    <3>1. nameKey[n] = mem[n] /\ ptrKey[mem[n]] = n /\ mem[n] # 0
      BY <1>2, <2>1 DEF FirstUploadExact
    <3>2. mem'[n] = mem[n]
      BY <1>2, <3>1, RegisterKeeps
    <3> QED
      BY <1>2, <3>1, <3>2 DEF store
  <2> QED
    BY <1>2, <2>1 DEF store
<1>3. ASSUME NEW c \in Names, RegisterContext(c)
      PROVE  \A n \in Names : nameKey'[n] # 0 => nameKey'[n] = mem'[n] /\ ptrKey'[mem'[n]] = n
  BY <1>2, <1>3, NamesAssumption DEF RegisterContext
<1>4. ASSUME NEW c \in Names \cup {NoName}, MergeContextLists(c)
      PROVE  \A n \in Names : nameKey'[n] # 0 => nameKey'[n] = mem'[n] /\ ptrKey'[mem'[n]] = n
  BY <1>2, <1>4 DEF MergeContextLists
<1>5. CASE UploadNext
  <2>1. /\ arg \in 0 .. (top - 1) /\ UploadContext(dir[arg].name, dir[arg].ptr)
        /\ UNCHANGED <<dir, mem, top>> /\ kind = "compile" /\ session = 1
    BY <1>5 DEF UploadNext, DirInv, ContextTypeOK, memory
  <2>2. MemoryExact /\ \A n \in Names : nameKey[n] # 0 => nameKey[n] = mem[n] /\ ptrKey[mem[n]] = n
    BY <2>1 DEF DirInv, FirstUploadExact
  <2>3. CASE dir[arg].name = NoName
    BY <2>1, <2>2, <2>3 DEF UploadContext, store
  <2>4. CASE dir[arg].name # NoName
    <3>1. arg \in Ptrs /\ dir[arg].ptr = arg /\ dir[arg].name \in Names
      BY <2>1, <2>4, NamedEntry
    <3>2. mem[dir[arg].name] = arg
      BY <2>1, <2>2, <3>1 DEF MemoryExact, Ptrs
    <3>3. ASSUME NEW n \in Names, nameKey'[n] # 0
          PROVE  nameKey'[n] = mem[n] /\ ptrKey'[mem[n]] = n
      <4>1. CASE n = dir[arg].name /\ nameKey[n] = 0
        BY <2>1, <3>1, <3>2, <4>1, UploadKeeps DEF DirInv
      <4>2. CASE n # dir[arg].name \/ nameKey[n] # 0
        <5>1. nameKey'[n] = nameKey[n]
          BY <2>1, <3>1, <4>2, UploadKeeps DEF DirInv
        <5>2. nameKey[n] = mem[n] /\ ptrKey[mem[n]] = n /\ nameKey[n] \in 0 .. MaxPtr
          BY <2>2, <3>3, <5>1 DEF DirInv, ContextTypeOK
        <5>3. mem[n] \in Ptrs
          BY <3>3, <5>1, <5>2, NamesAssumption DEF Ptrs
        <5>4. CASE mem[n] = arg
          <6>1. n = dir[arg].name
            BY <2>2, <5>3, <5>4 DEF MemoryExact, Ptrs
          <6>2. UNCHANGED store
            BY <2>1, <3>3, <5>1, <6>1 DEF UploadContext
          <6> QED
            BY <5>2, <6>2 DEF store
        <5>5. CASE mem[n] # arg
          BY <2>1, <3>1, <5>1, <5>2, <5>3, <5>5, UploadKeeps DEF DirInv
        <5> QED
          BY <5>4, <5>5
      <4> QED
        BY <4>1, <4>2
    <3> QED
      BY <2>1, <3>3
  <2> QED
    BY <2>3, <2>4
<1>6. CASE BeginUpload \/ UNCHANGED vars
  BY <1>6 DEF BeginUpload, vars, memory, store, FirstUploadExact
<1>7. CASE StartApi \/ Stop
  BY <1>7 DEF StartApi, Stop
<1>8. CASE TryRegister \/ \E n \in Names : TryKnown(n) \/ TryRestore(n) \/ TryUpload(n)
  <2>1. kind = "api" /\ kind' = kind
    BY <1>8 DEF TryRegister, TryKnown, TryRestore, TryUpload, CanTry, DirInv, PcOfKind
  <2> QED
    BY <2>1
<1> QED
  BY <1>1, <1>3, <1>4, <1>5, <1>6, <1>7, <1>8 DEF Next

(* What is said of plain names stays said. *)
LEMMA PlainStep ==
    ASSUME DirInv, PtrKeysCurrent, PlainNamesStored, [Next]_vars
    PROVE  PlainNamesStored'
<1> SUFFICES ASSUME NEW n \in Plain
             PROVE  /\ granted'[n] # 0 => nameKey'[n] = granted'[n]
                    /\ kind' = "api" /\ mem'[n] # 0 => nameKey'[n] = mem'[n]
                    /\ pc' = "register" /\ arg' = n => mem'[n] = 0 /\ nameKey'[n] = top'
  BY DEF PlainNamesStored, Plain
<1>1. /\ n \in Names /\ n \in Names \cup {NoName} /\ Canon[n] = n
      /\ \A m \in Names : Canon[m] = n => m = n
  BY DEF Plain
<1>2. /\ granted[n] # 0 => nameKey[n] = granted[n]
      /\ kind = "api" /\ mem[n] # 0 => nameKey[n] = mem[n]
      /\ pc = "register" /\ arg = n => mem[n] = 0 /\ nameKey[n] = top
  BY DEF PlainNamesStored
<1>3. nameKey[n] # 0 => nameKey'[n] = nameKey[n]
  BY <1>1, StoreStep
<1>4. /\ granted \in [Names -> 0 .. MaxPtr] /\ mem \in [Names \cup {NoName} -> 0 .. (top - 1)]
      /\ top \in 1 .. (MaxPtr + 1)
  BY DEF DirInv, ContextTypeOK
<1>5. CASE StartApi
  BY <1>1, <1>2, <1>5 DEF StartApi, store, memory, DirInv, OffIsEmpty, PcOfKind, EmptyMem
<1>6. CASE StartCompile \/ Stop
  <2>1. kind' # "api" /\ granted' = granted /\ pc' # "register"
    BY <1>6 DEF StartCompile, Stop, DirInv, PcOfKind
  <2> QED
    BY <1>2, <1>3, <2>1
<1>7. ASSUME NEW m, RegisterContext(m) \/ MergeContextLists(m) \/ BeginUpload \/ UploadNext
      PROVE  kind' # "api" /\ granted' = granted /\ pc' # "register"
  BY <1>7 DEF RegisterContext, MergeContextLists, BeginUpload, UploadNext, DirInv, PcOfKind
<1>8. ASSUME NEW m, RegisterContext(m) \/ MergeContextLists(m) \/ BeginUpload \/ UploadNext
      PROVE  /\ granted'[n] # 0 => nameKey'[n] = granted'[n]
             /\ kind' = "api" /\ mem'[n] # 0 => nameKey'[n] = mem'[n]
             /\ pc' = "register" /\ arg' = n => mem'[n] = 0 /\ nameKey'[n] = top'
  BY <1>2, <1>3, <1>7, <1>8
<1>9. ASSUME NEW m \in Names, TryKnown(m)
      PROVE  /\ granted'[n] # 0 => nameKey'[n] = granted'[n]
             /\ kind' = "api" /\ mem'[n] # 0 => nameKey'[n] = mem'[n]
             /\ pc' = "register" /\ arg' = n => mem'[n] = 0 /\ nameKey'[n] = top'
  BY <1>1, <1>2, <1>4, <1>9 DEF TryKnown, CanTry, memory, store
<1>10. ASSUME NEW m \in Names, TryRestore(m)
       PROVE  /\ granted'[n] # 0 => nameKey'[n] = granted'[n]
              /\ kind' = "api" /\ mem'[n] # 0 => nameKey'[n] = mem'[n]
              /\ pc' = "register" /\ arg' = n => mem'[n] = 0 /\ nameKey'[n] = top'
  <2>1. /\ mem' = [mem EXCEPT ![m] = nameKey[m]] /\ granted' = [granted EXCEPT ![m] = nameKey[m]]
        /\ UNCHANGED nameKey /\ kind = "api" /\ pc' = "idle"
    BY <1>10, RestoreKeeps DEF TryRestore, CanTry, store, DirInv, PcOfKind
  <2> QED
    BY <1>1, <1>2, <1>4, <2>1
<1>11. ASSUME NEW m \in Names, TryUpload(m)
       PROVE  /\ granted'[n] # 0 => nameKey'[n] = granted'[n]
              /\ kind' = "api" /\ mem'[n] # 0 => nameKey'[n] = mem'[n]
              /\ pc' = "register" /\ arg' = n => mem'[n] = 0 /\ nameKey'[n] = top'
  <2>1. /\ kind = "api" /\ mem[m] = 0 /\ nameKey[m] = 0 /\ arg' = m
        /\ UploadContext(m, top) /\ top \in Ptrs /\ UNCHANGED <<kind, dir, mem, top, granted>>
    BY <1>11, NamesAssumption DEF TryUpload, CanTry, memory, Ptrs, DirInv, ContextTypeOK
  <2>2. nameKey'[m] = top
    BY <2>1, UploadKeeps DEF DirInv
  <2> QED
    BY <1>1, <1>2, <1>3, <1>4, <2>1, <2>2
<1>12. ASSUME TryRegister
       PROVE  /\ granted'[n] # 0 => nameKey'[n] = granted'[n]
              /\ kind' = "api" /\ mem'[n] # 0 => nameKey'[n] = mem'[n]
              /\ pc' = "register" /\ arg' = n => mem'[n] = 0 /\ nameKey'[n] = top'
  <2>1. /\ pc = "register" /\ kind = "api" /\ arg \in Names
        /\ pc' = "idle" /\ UNCHANGED <<kind, nameKey>>
    BY <1>12 DEF TryRegister, DirInv, PcOfKind, ContextTypeOK, store
  <2>2. CASE Canon[arg] = NoName
    <3>1. arg # n /\ mem' = mem /\ granted' = [granted EXCEPT ![arg] = 0]
      BY <1>1, <1>12, <2>2, NamesAssumption DEF TryRegister, memory
    <3> QED
      BY <1>1, <1>2, <1>4, <2>1, <3>1
  <2>3. CASE Canon[arg] # NoName
    <3> DEFINE c == Canon[arg]
    <3>1. c \in Names \cup {NoName} /\ Register(c)
          /\ granted' = [granted EXCEPT ![arg] = mem'[c]]
      BY <1>12, <2>1, <2>3, NamesAssumption DEF TryRegister
    <3>2. c = n <=> arg = n
      BY <1>1, <2>1
    <3> HIDE DEF c
    <3>3. CASE arg = n
      <4>1. c = n /\ mem[n] = 0 /\ nameKey[n] = top
        BY <1>2, <2>1, <3>2, <3>3
      <4>2. mem'[n] = top
        BY <3>1, <4>1, RegisterKeeps
      <4>3. granted'[n] = top
        BY <1>1, <1>4, <3>1, <3>3, <4>1, <4>2
      <4> QED
        BY <2>1, <4>1, <4>2, <4>3
    <3>4. CASE arg # n
      <4>1. mem'[n] = mem[n]
        BY <1>1, <3>1, <3>2, <3>4, RegisterKeeps
      <4>2. granted'[n] = granted[n]
        BY <1>1, <1>4, <3>1, <3>4
      <4> QED
        BY <1>2, <2>1, <4>1, <4>2
    <3> QED
      BY <3>3, <3>4
  <2> QED
    BY <2>2, <2>3
<1>13. CASE UNCHANGED vars
  BY <1>2, <1>13 DEF vars, memory, store
<1> QED
  BY <1>5, <1>6, <1>2, <1>3, <1>8, <1>9, <1>10, <1>11, <1>12, <1>13 DEF Next

LEMMA InitContextInv == Init => ContextInv
<1>1. Init => PtrKeysCurrent /\ FirstUploadExact
  BY NamesAssumption DEF Init, PtrKeysCurrent, FirstUploadExact
<1>2. Init => PlainNamesStored
  BY DEF Init, PlainNamesStored, Plain
<1> QED
  BY <1>1, <1>2, InitDirInv DEF ContextInv

LEMMA ContextInvStep == ContextInv /\ [Next]_vars => ContextInv'
BY DirInvStep, StoreStep, FirstUploadStep, PlainStep DEF ContextInv

LEMMA ContextInvariant == Spec => []ContextInv
BY InitContextInv, ContextInvStep, PTL DEF Spec

(* The directory, the keys and the call in progress are well-typed; the    *)
(* directory is indexed by pointer; a compiler reads back what it          *)
(* registered; pointer keys are current; and the first upload is exact.    *)
THEOREM ContextSafety ==
    Spec => [](ContextTypeOK /\ PtrIsIndex /\ CompileRoundTrip /\ PtrKeysCurrent /\ FirstUploadExact)
<1>1. ContextInv => ContextTypeOK /\ PtrIsIndex /\ PtrKeysCurrent /\ FirstUploadExact
  BY DEF ContextInv, DirInv
<1>2. ContextInv => CompileRoundTrip
  BY DEF ContextInv, DirInv, ContextTypeOK, MemoryExact, CompileRoundTrip
<1> QED
  BY <1>1, <1>2, ContextInvariant, PTL

(* A stored context name keeps its pointer in every later session. *)
THEOREM StoredNamesKeepPointers == Spec => NamesKeepPointers
<1>1. ContextInv /\ [Next]_vars =>
        [\A n \in Names : nameKey[n] # 0 => nameKey'[n] = nameKey[n]]_vars
  BY StoreStep DEF ContextInv
<1> QED
  BY <1>1, ContextInvariant, PTL DEF Spec, NamesKeepPointers

(* TryContext gives a plain name the same pointer every time, in every     *)
(* session.                                                                *)
THEOREM TryContextIsIdempotent == Spec => TryContextIdempotent
<1>1. ASSUME ContextInv, [Next]_vars, NEW n \in Plain, granted[n] # 0
      PROVE  granted'[n] = granted[n]
  <2>1. nameKey[n] = granted[n] /\ n \in Names
    BY <1>1 DEF ContextInv, PlainNamesStored, Plain
  <2>2. nameKey'[n] = granted[n]
    BY <1>1, <2>1, StoreStep DEF ContextInv
  <2>3. granted'[n] # 0 => nameKey'[n] = granted'[n]
    BY <1>1, ContextInvStep DEF ContextInv, PlainNamesStored, Plain
  <2>4. granted'[n] # 0
    <3>1. /\ granted \in [Names -> 0 .. MaxPtr]
          /\ mem \in [Names \cup {NoName} -> 0 .. (top - 1)]
      BY <1>1 DEF ContextInv, DirInv, ContextTypeOK
    <3>2. CASE granted' = granted
      BY <1>1, <3>2
    <3>3. ASSUME NEW m \in Names, TryKnown(m) \/ TryRestore(m) PROVE granted'[n] # 0
      BY <1>1, <2>1, <3>1, <3>3 DEF TryKnown, TryRestore
    <3>4. CASE TryRegister
      <4>1. arg \in Names /\ kind = "api"
        BY <1>1, <3>4 DEF TryRegister, ContextInv, DirInv, ContextTypeOK, PcOfKind
      <4>2. CASE arg # n
        <5>1. PICK v : granted' = [granted EXCEPT ![arg] = v]
          BY <3>4 DEF TryRegister
        <5> QED
          BY <1>1, <2>1, <3>1, <4>2, <5>1
      <4>3. CASE arg = n
        <5>1. Canon[n] = n /\ n # NoName /\ n \in Names \cup {NoName}
          BY <2>1, NamesAssumption DEF Plain
        <5>2. Register(n) /\ granted' = [granted EXCEPT ![n] = mem'[n]]
          BY <3>4, <4>3, <5>1 DEF TryRegister
        <5>3. mem'[n] # 0
          BY <1>1, <5>1, <5>2, RegisterKeeps DEF ContextInv
        <5> QED
          BY <2>1, <3>1, <5>2, <5>3
      <4> QED
        BY <4>2, <4>3
    <3>5. granted' = granted \/ TryRegister \/ \E m \in Names : TryKnown(m) \/ TryRestore(m)
      BY <1>1 DEF Next, vars, StartApi, StartCompile, Stop, RegisterContext,
         MergeContextLists, BeginUpload, UploadNext, TryUpload
    <3> QED
      BY <3>2, <3>3, <3>4, <3>5
  <2> QED
    BY <2>2, <2>3, <2>4
<1>2. ContextInv /\ [Next]_vars =>
        [\A n \in Plain : granted[n] # 0 => granted'[n] = granted[n]]_vars
  BY <1>1
<1> QED
  BY <1>2, ContextInvariant, PTL DEF Spec, TryContextIdempotent
=============================================================================
