------------------------------ MODULE Contexts -------------------------------
(***************************************************************************)
(* Context labels: the in-memory directory of a session                    *)
(*     CONTEXT_DIRECTORY[ptr]   CONTEXT_DIR[name]   CONTEXT_TOP            *)
(* (pkg/SSTorytime/SSTorytime.go) and its persistent form                  *)
(*     ctx:name:<name> -> ptr   ctx:ptr:<ptr> -> name                      *)
(* (kv_badger.go).  A session is a run of the compiler, which registers    *)
(* contexts in memory and uploads them at the end, or a program on the API,*)
(* which stores each context as it meets it.  Memory starts empty in every *)
(* session; a session may end, or die, between any two transactions.       *)
(***************************************************************************)
EXTENDS Integers, FiniteSets

CONSTANTS Names,       \* context strings
          NoName,      \* the empty string
          AnyName,        \* "any", which the compiler registers first
          Canon,       \* NormalizeContextString: the canonical form of a name
          MaxPtr,      \* bound: pointers handed out in a session
          MaxSessions  \* bound: sessions

ASSUME NamesAssumption ==
    /\ NoName \notin Names
    /\ Canon \in [Names -> Names \cup {NoName}]
    /\ AnyName \in Names /\ Canon[AnyName] = AnyName
    /\ MaxPtr \in Nat \ {0} /\ MaxSessions \in Nat

VARIABLES kind,     \* "off", or the session in progress: "compile" or "api"
          session,  \* how many sessions were started
          dir,      \* CONTEXT_DIRECTORY: a function on 0 .. CONTEXT_TOP - 1
          mem,      \* CONTEXT_DIR: name -> pointer, 0 when absent
          top,      \* CONTEXT_TOP
          nameKey,  \* ctx:name: keys: name -> pointer, 0 when absent
          ptrKey,   \* ctx:ptr: keys: pointer -> name, NoName when absent
          pc,       \* "idle", "upload" or "register"
          arg,      \* the next index to upload, or the context to register
          granted   \* history: the pointer TryContext last returned for a name

memory == <<dir, mem, top>>
store == <<nameKey, ptrKey>>
vars == <<kind, session, memory, store, pc, arg, granted>>

Ptrs == 1 .. MaxPtr
Entry == [name : Names \cup {NoName}, ptr : 0 .. MaxPtr]
Blank == [name |-> NoName, ptr |-> 0]
NoArg == -1

(* MemoryInit: pointer 0 is reserved for "no context". *)
EmptyDir == [i \in {0} |-> Blank]
EmptyMem == [n \in Names \cup {NoName} |-> 0]

(* append(CONTEXT_DIRECTORY, cd) for a directory of length top *)
Extend(n) == [i \in 0 .. top |-> IF i = top THEN [name |-> n, ptr |-> top] ELSE dir[i]]

Init ==
    /\ kind = "off" /\ session = 0
    /\ dir = EmptyDir /\ mem = EmptyMem /\ top = 1
    /\ nameKey = [n \in Names |-> 0]
    /\ ptrKey = [p \in Ptrs |-> NoName]
    /\ pc = "idle" /\ arg = NoArg
    /\ granted = [n \in Names |-> 0]

(* Slip: CONTEXT_TOP stays where it is. *)
RegisterStuck(n) ==
    IF mem[n] # 0
    THEN UNCHANGED memory
    ELSE /\ top <= MaxPtr
         /\ dir' = Extend(n)
         /\ mem' = [mem EXCEPT ![n] = top]
         /\ top' = top

(* The next pointer goes to n unless the directory knows it. *)
Register(n) ==
    IF mem[n] # 0
    THEN UNCHANGED memory
    ELSE /\ top <= MaxPtr
         /\ dir' = Extend(n)
         /\ mem' = [mem EXCEPT ![n] = top]
         /\ top' = top + 1

(* Slip: a stored name is stored again. *)
UploadContextAgain(n, p) ==
    IF n = NoName
    THEN UNCHANGED store
    ELSE /\ nameKey' = [nameKey EXCEPT ![n] = p]
         /\ ptrKey' = [ptrKey EXCEPT ![p] = n]

(* UploadContext: one transaction writes both keys, unless the name has one. *)
UploadContext(n, p) ==
    IF n = NoName \/ nameKey[n] # 0
    THEN UNCHANGED store
    ELSE /\ nameKey' = [nameKey EXCEPT ![n] = p]
         /\ ptrKey' = [ptrKey EXCEPT ![p] = n]

-----------------------------------------------------------------------------
(* Open and, in the compiler, AddMandatory. *)
StartApi ==
    /\ kind = "off" /\ session < MaxSessions
    /\ kind' = "api" /\ session' = session + 1
    /\ UNCHANGED <<memory, store, pc, arg, granted>>

StartCompile ==
    /\ kind = "off" /\ session < MaxSessions
    /\ kind' = "compile" /\ session' = session + 1
    /\ Register(AnyName)
    /\ UNCHANGED <<store, pc, arg, granted>>

(* The session ends or dies: memory is gone. *)
Stop ==
    /\ kind # "off"
    /\ kind' = "off"
    /\ dir' = EmptyDir /\ mem' = EmptyMem /\ top' = 1
    /\ pc' = "idle" /\ arg' = NoArg
    /\ UNCHANGED <<session, store, granted>>

(* The compiler meets a context. *)
RegisterContext(n) ==
    /\ kind = "compile" /\ pc = "idle"
    /\ Canon[n] # NoName
    /\ Register(Canon[n])
    /\ UNCHANGED <<kind, session, store, pc, arg, granted>>

(* A repeated link merges its contexts; merging none registers the empty   *)
(* string under a pointer of its own.                                      *)
MergeContextLists(n) ==
    /\ kind = "compile" /\ pc = "idle"
    /\ Register(n)
    /\ UNCHANGED <<kind, session, store, pc, arg, granted>>

(* Slip: contexts are numbered from their place after the sentinel. *)
UploadNextShifted ==
    /\ pc = "upload" /\ arg < top
    /\ UploadContext(dir[arg].name, arg + 1)
    /\ arg' = arg + 1
    /\ UNCHANGED <<kind, session, memory, pc, granted>>

(* UploadContextsToDB: the directory in order, one transaction an entry;   *)
(* the pointer UploadContext returns is not looked at.                     *)
BeginUpload ==
    /\ kind = "compile" /\ pc = "idle"
    /\ pc' = "upload" /\ arg' = 0
    /\ UNCHANGED <<kind, session, memory, store, granted>>

UploadNext ==
    /\ pc = "upload" /\ arg < top
    /\ UploadContext(dir[arg].name, dir[arg].ptr)
    /\ arg' = arg + 1
    /\ UNCHANGED <<kind, session, memory, pc, granted>>

-----------------------------------------------------------------------------
(* TryContext, in a program on the API. *)

CanTry == kind = "api" /\ pc = "idle"

(* Known in this session. *)
TryKnown(n) ==
    /\ CanTry
    /\ mem[n] # 0
    /\ granted' = [granted EXCEPT ![n] = mem[n]]
    /\ UNCHANGED <<kind, session, memory, store, pc, arg>>

(* The directory once entry p is n: padded with blank entries up to p. *)
Restored(n, p) ==
    [i \in 0 .. (IF p < top THEN top - 1 ELSE p) |->
        IF i = p THEN [name |-> n, ptr |-> p]
        ELSE IF i < top THEN dir[i]
        ELSE Blank]

(* Slip: the stored pointer is ignored. *)
TryRestoreFresh(n) ==
    /\ CanTry
    /\ mem[n] = 0 /\ nameKey[n] # 0
    /\ Register(n)
    /\ granted' = [granted EXCEPT ![n] = mem'[n]]
    /\ UNCHANGED <<kind, session, store, pc, arg>>

(* Stored by an earlier session: entry p of the directory becomes n. *)
TryRestore(n) ==
    /\ CanTry
    /\ mem[n] = 0 /\ nameKey[n] # 0
    /\ LET p == nameKey[n]
       IN /\ dir' = Restored(n, p)
          /\ mem' = [mem EXCEPT ![n] = p]
          /\ top' = IF p >= top THEN p + 1 ELSE top
          /\ granted' = [granted EXCEPT ![n] = p]
    /\ UNCHANGED <<kind, session, store, pc, arg>>

(* Unknown: stored under CONTEXT_TOP ... *)
TryUpload(n) ==
    /\ CanTry
    /\ mem[n] = 0 /\ nameKey[n] = 0
    /\ top <= MaxPtr
    /\ UploadContext(n, top)
    /\ pc' = "register" /\ arg' = n
    /\ UNCHANGED <<kind, session, memory, granted>>

(* ... and then registered, in its canonical form. *)
TryRegister ==
    /\ pc = "register"
    /\ IF Canon[arg] = NoName
       THEN /\ UNCHANGED memory
            /\ granted' = [granted EXCEPT ![arg] = 0]
       ELSE /\ Register(Canon[arg])
            /\ granted' = [granted EXCEPT ![arg] = mem'[Canon[arg]]]
    /\ pc' = "idle" /\ arg' = NoArg
    /\ UNCHANGED <<kind, session, store>>

Next ==
    \/ StartApi
    \/ StartCompile
    \/ Stop
    \/ \E n \in Names : RegisterContext(n)
    \/ \E n \in Names \cup {NoName} : MergeContextLists(n)
    \/ BeginUpload
    \/ UploadNext
    \/ \E n \in Names : TryKnown(n)
    \/ \E n \in Names : TryRestore(n)
    \/ \E n \in Names : TryUpload(n)
    \/ TryRegister

Spec == Init /\ [][Next]_vars

-----------------------------------------------------------------------------
(* The types of the directory, of the keys and of the call in progress. *)
ContextTypeOK ==
    /\ kind \in {"off", "compile", "api"}
    /\ session \in Nat
    /\ top \in 1 .. (MaxPtr + 1)
    /\ dir \in [0 .. (top - 1) -> Entry]
    /\ mem \in [Names \cup {NoName} -> 0 .. (top - 1)]
    /\ nameKey \in [Names -> 0 .. MaxPtr]
    /\ ptrKey \in [Ptrs -> Names \cup {NoName}]
    /\ granted \in [Names -> 0 .. MaxPtr]
    /\ \/ pc = "idle" /\ arg = NoArg
       \/ pc = "upload" /\ arg \in 0 .. top
       \/ pc = "register" /\ arg \in Names

(* "ptr == slice index", as MemoryInit says: an entry that is not padding  *)
(* carries its own index, whatever order restoring and registering take.   *)
PtrIsIndex == \A i \in DOMAIN dir : dir[i].ptr = i \/ dir[i] = Blank

(* While a compiler runs, looking a registered name up and reading its     *)
(* pointer back gives the name: the labels of links and pages are right    *)
(* until they are stored.                                                  *)
CompileRoundTrip ==
    kind = "compile" => \A n \in DOMAIN mem : mem[n] # 0 => dir[mem[n]].name = n

(* The pointer key names a context whose name key leads back to it; only   *)
(* the other direction is lost when a later session writes the pointer key *)
(* again.                                                                  *)
PtrKeysCurrent ==
    \A p \in Ptrs : ptrKey[p] # NoName => nameKey[ptrKey[p]] = p

(* A stored name keeps its pointer, in every later session. *)
NamesKeepPointers ==
    [][\A n \in Names : nameKey[n] # 0 => nameKey'[n] = nameKey[n]]_vars

(* In the session that creates the store, a compiler stores what its links *)
(* say: the stored pointers are those of its directory.                    *)
FirstUploadExact ==
    session = 1 /\ kind = "compile" =>
        \A n \in Names : nameKey[n] # 0 => nameKey[n] = mem[n] /\ ptrKey[mem[n]] = n

(* TryContext is idempotent across sessions, for a name no other spelling  *)
(* of which is in use.                                                     *)
Plain == {n \in Names : \A m \in Names : Canon[m] = n <=> m = n}
TryContextIdempotent ==
    [][\A n \in Plain : granted[n] # 0 => granted'[n] = granted[n]]_vars
=============================================================================
