--------------------------- MODULE FuseFileProofs ---------------------------
(***************************************************************************)
(* Proofs about FuseFile for any number of processes, and any bounds.      *)
(*                                                                         *)
(* That the counts of the slots add up, and that the daemon has open what  *)
(* the slots say, depends on what a vnode looks like before anybody has    *)
(* opened it (NewInv), on who holds the locks while he sleeps or asks for  *)
(* an authorization (LockInv), and, for the slot that create stashes into, *)
(* on whether a second create has written over it (restashed).             *)
(***************************************************************************)
EXTENDS FuseFile, FiniteSetTheorems, TLAPS

\* The locks are kept from one step to the next where the program counters say
\* so.  A contender is never woken: its waker needs the locks it sleeps with.
LockInv == \A t \in Threads :
    /\ biglock = t <=> pc[t] = "contender"
    /\ nodelock = t <=> pc[t] \in {"contender", "preflight", "write"}
    /\ pc[t] # "awake"
    /\ pc[t] = "contender" => creating

\* Nobody has opened, mapped or written the file since its vnode was made.
Fresh ==
    /\ ~used /\ ~dirty /\ nmaps = NoUses /\ aux_count = NoUses
    /\ \A t \in Threads : fd[t] = None /\ map[t] = None

\* A file without a vnode has no handles; a new file has the stashed one.
NewInv ==
    /\ ~present \/ creating => Fresh
    /\ ~present => ~creating /\ open_count = NoUses
    /\ creating => open_count = [NoUses EXCEPT !["FUFH_RDWR"] = 1]

\* Handles that were lost are in no slot.
LostInv == ~dead => \A y \in Valid : fh_id[y] \notin lost

\* The uses of a slot are its descriptors, mappings, page traffic and stash.
Counted(y) ==
    IF FUFH_IS_VALID(y)
    THEN open_count[y] = Users(y) + nmaps[y] + aux_count[y]
                           + (IF creating /\ y = "FUFH_RDWR" THEN 1 ELSE 0)
    ELSE Users(y) = 0 /\ nmaps[y] = 0
CountInv ==
    Running /\ ~dead =>
        \A y \in Types : (y = "FUFH_RDWR" => ~restashed) => Counted(y)

\* Mappings, even of a dead file system.
MapInv ==
    /\ Running => nmaps["FUFH_RDONLY"] <= open_count["FUFH_RDONLY"]
    /\ \A t \in Threads : pc[t] = "preflight" =>
          nmaps[type[t]] < MaxUses /\ map[t] # None

\* The inductive invariant.
IInv == /\ TypeOK /\ NoPanic /\ LockInv /\ NewInv /\ HandlesMatch /\ LostInv
        /\ CountInv /\ MapInv

-----------------------------------------------------------------------------
\* A number no open handle has.
LEMMA NewHandleIsNew ==
    ASSUME HasHandle
    PROVE  NewHandle \in 1..MaxHandles /\ NewHandle \notin opened
BY DEF HasHandle, NewHandle

\* The number of descriptors open in one way.
LEMMA Users_Nat ==
    ASSUME NEW y
    PROVE  IsFiniteSet({t \in Threads : fd[t] = y}) /\ Users(y) \in Nat
<1>1. IsFiniteSet({t \in Threads : fd[t] = y})
  BY FileAssumption, FS_Subset
<1>. QED BY <1>1, FS_CardinalityType DEF Users

\* A descriptor is opened.
LEMMA Users_Open ==
    ASSUME fd \in [Threads -> Types \union {None}], NEW t \in Threads,
           NEW y \in Types, fd[t] = None, fd' = [fd EXCEPT ![t] = y]
    PROVE  /\ Users(y)' = Users(y) + 1
           /\ \A z \in Types \ {y} : Users(z)' = Users(z)
<1>. None \notin Types BY FileAssumption DEF Types
<1>1. {u \in Threads : fd'[u] = y} = {u \in Threads : fd[u] = y} \union {t}
  OBVIOUS
<1>2. t \notin {u \in Threads : fd[u] = y}
  OBVIOUS
<1>3. Users(y)' = Users(y) + 1
  <2>. DEFINE S == {u \in Threads : fd[u] = y}
  <2>1. Users(y) = Cardinality(S) /\ IsFiniteSet(S)
    BY Users_Nat DEF Users
  <2>2. Users(y)' = Cardinality(S \union {t})
    BY <1>1 DEF Users
  <2>. HIDE DEF S
  <2>3. Cardinality(S \union {t}) = Cardinality(S) + 1
    BY <1>2, <2>1, FS_AddElement DEF S
  <2>. QED BY <2>1, <2>2, <2>3
<1>4. ASSUME NEW z \in Types \ {y} PROVE Users(z)' = Users(z)
  <2>1. {u \in Threads : fd'[u] = z} = {u \in Threads : fd[u] = z}
    OBVIOUS
  <2>. QED BY <2>1 DEF Users
<1>. QED BY <1>3, <1>4

\* A descriptor is closed.
LEMMA Users_Close ==
    ASSUME fd \in [Threads -> Types \union {None}], NEW t \in Threads,
           NEW y \in Types, fd[t] = y, fd' = [fd EXCEPT ![t] = None]
    PROVE  /\ Users(y)' = Users(y) - 1 /\ Users(y) # 0
           /\ \A z \in Types \ {y} : Users(z)' = Users(z)
<1>. None \notin Types BY FileAssumption DEF Types
<1>1. {u \in Threads : fd'[u] = y} = {u \in Threads : fd[u] = y} \ {t}
  OBVIOUS
<1>2. t \in {u \in Threads : fd[u] = y}
  OBVIOUS
<1>3. Users(y)' = Users(y) - 1
  <2>. DEFINE S == {u \in Threads : fd[u] = y}
  <2>1. Users(y) = Cardinality(S) /\ IsFiniteSet(S)
    BY Users_Nat DEF Users
  <2>2. Users(y)' = Cardinality(S \ {t})
    BY <1>1 DEF Users
  <2>. HIDE DEF S
  <2>3. Cardinality(S \ {t}) = Cardinality(S) - 1
    BY <1>2, <2>1, FS_RemoveElement DEF S
  <2>. QED BY <2>1, <2>2, <2>3
<1>4. Users(y) # 0
  BY <1>2, Users_Nat, FS_EmptySet DEF Users
<1>5. ASSUME NEW z \in Types \ {y} PROVE Users(z)' = Users(z)
  <2>1. {u \in Threads : fd'[u] = z} = {u \in Threads : fd[u] = z}
    OBVIOUS
  <2>. QED BY <2>1 DEF Users
<1>. QED BY <1>3, <1>4, <1>5

\* A step that counts nothing.
LEMMA Count_Same ==
    ASSUME CountInv, UNCHANGED <<open_count, aux_count, nmaps, fd, creating>>,
           Running' /\ ~dead' => Running /\ ~dead, restashed => restashed'
    PROVE  CountInv'
<1>1. \A y \in Types : Counted(y)' <=> Counted(y)
  BY DEF Counted, Users, FUFH_IS_VALID
<1>. QED BY <1>1 DEF CountInv

\* A step that opens and releases nothing.
LEMMA Handles_Same ==
    ASSUME HandlesMatch, LostInv, UNCHANGED <<open_count, fh_id, opened, lost>>,
           dead => dead'
    PROVE  HandlesMatch' /\ LostInv'
BY DEF HandlesMatch, LostInv, Valid, FUFH_IS_VALID

\* fuse_filehandle_get fills an empty slot.
LEMMA Handles_Get ==
    ASSUME TypeOK, HandlesMatch, LostInv, HasHandle, ~dead, NEW y \in Types,
           ~FUFH_IS_VALID(y), opened' = opened \union {NewHandle},
           fh_id' = [fh_id EXCEPT ![y] = NewHandle],
           open_count' = [open_count EXCEPT ![y] = 1], UNCHANGED lost
    PROVE  HandlesMatch' /\ LostInv'
<1>1. Valid' = Valid \union {y} /\ y \notin Valid
  BY DEF TypeOK, Valid, FUFH_IS_VALID
<1>2. \A z \in Valid : z \in Types /\ fh_id'[z] = fh_id[z]
        /\ fh_id[z] \in opened
  BY <1>1 DEF TypeOK, Valid, HandlesMatch
<1>3. fh_id'[y] = NewHandle /\ NewHandle \notin opened /\ lost \subseteq opened
  BY NewHandleIsNew DEF TypeOK
<1>4. {fh_id'[z] : z \in Valid'} = {fh_id[z] : z \in Valid} \union {NewHandle}
  BY <1>1, <1>2, <1>3
<1>5. HandlesMatch'
  BY <1>1, <1>2, <1>3, <1>4 DEF HandlesMatch
<1>6. LostInv'
  BY <1>1, <1>2, <1>3 DEF LostInv
<1>. QED BY <1>5, <1>6

\* fuse_filehandle_put empties slots.
LEMMA Handles_Put ==
    ASSUME TypeOK, HandlesMatch, LostInv, ~dead, NEW ys, ys \subseteq Valid,
           Valid' = Valid \ ys, opened' = opened \ {fh_id[y] : y \in ys},
           \A y \in Valid' : fh_id'[y] = fh_id[y], UNCHANGED lost
    PROVE  HandlesMatch' /\ LostInv' /\ lost' \subseteq opened'
<1>1. \A y, z \in Valid : fh_id[y] = fh_id[z] => y = z
  BY DEF HandlesMatch
<1>2. {fh_id'[y] : y \in Valid'} = {fh_id[y] : y \in Valid} \ {fh_id[y] : y \in ys}
  BY <1>1
<1>3. lost \intersect {fh_id[y] : y \in ys} = {}
  BY DEF LostInv
<1>4. opened = {fh_id[y] : y \in Valid} \union lost
  BY DEF HandlesMatch
<1>5. opened' = {fh_id'[y] : y \in Valid'} \union lost'
  BY <1>2, <1>3, <1>4
<1>6. \A y, z \in Valid' : fh_id'[y] = fh_id'[z] => y = z
  BY <1>1
<1>. QED BY <1>3, <1>4, <1>5, <1>6 DEF HandlesMatch, LostInv

\* What fuse_filehandle_get does to an empty slot.
LEMMA Get_Slot ==
    ASSUME TypeOK, NEW y \in Types, NEW aux \in 0..1, NEW why,
           GetSucceeds(y, aux, why), ~FUFH_IS_VALID(y)
    PROVE  /\ ~dead /\ HasHandle /\ opened' = opened \union {NewHandle}
           /\ fh_id' = [fh_id EXCEPT ![y] = NewHandle]
           /\ open_count' = [open_count EXCEPT ![y] = 1]
           /\ aux_count' = [aux_count EXCEPT ![y] = aux]
           /\ fh_id' \in [Types -> 0..MaxHandles]
           /\ open_count' \in [Types -> 0..MaxUses]
           /\ aux_count' \in [Types -> 0..1]
           /\ lost \subseteq opened' /\ opened' \subseteq 1..MaxHandles
           /\ panic' = panic
<1>. USE FileAssumption
<1>1. /\ ~dead /\ HasHandle /\ opened' = opened \union {NewHandle}
      /\ fh_id' = [fh_id EXCEPT ![y] = NewHandle]
      /\ open_count' = [open_count EXCEPT ![y] = 1]
      /\ aux_count' = [aux_count EXCEPT ![y] = aux]
      /\ panic' = panic
  BY DEF GetSucceeds, AuxAfterGet
<1>2. NewHandle \in 1..MaxHandles
  BY <1>1, NewHandleIsNew
<1>3. NewHandle \in 0..MaxHandles
  BY <1>2
<1>4. fh_id' \in [Types -> 0..MaxHandles]
  BY <1>1, <1>3 DEF TypeOK
<1>5. open_count' \in [Types -> 0..MaxUses] /\ aux_count' \in [Types -> 0..1]
  BY <1>1 DEF TypeOK
<1>6. lost \subseteq opened' /\ opened' \subseteq 1..MaxHandles
  BY <1>1, <1>2 DEF TypeOK
<1>. QED BY <1>1, <1>4, <1>5, <1>6

\* What FUFH_USE_INC does.
LEMMA Use_Slot ==
    ASSUME TypeOK, NEW y \in Types, UseInc(y), FUFH_IS_VALID(y)
    PROVE  /\ open_count' = [open_count EXCEPT ![y] = @ + 1]
           /\ open_count' \in [Types -> 0..MaxUses]
           /\ Valid' = Valid
           /\ UNCHANGED <<fh_id, aux_count, opened, panic>>
<1>. USE FileAssumption
<1>1. /\ open_count' = [open_count EXCEPT ![y] = @ + 1]
      /\ UNCHANGED <<fh_id, aux_count, opened, panic>>
  BY DEF UseInc
<1>2. open_count[y] \in 0..MaxUses /\ open_count[y] < MaxUses
  BY DEF UseInc, TypeOK
<1>3. open_count' \in [Types -> 0..MaxUses]
  BY <1>1, <1>2 DEF TypeOK
<1>4. Valid' = Valid
  BY <1>1, <1>2 DEF TypeOK, Valid, FUFH_IS_VALID
<1>. QED BY <1>1, <1>3, <1>4

\* FUFH_USE_INC opens and releases nothing.
LEMMA Handles_Use ==
    ASSUME HandlesMatch, LostInv, Valid' = Valid,
           UNCHANGED <<fh_id, opened, lost, dead>>
    PROVE  HandlesMatch' /\ LostInv'
BY DEF HandlesMatch, LostInv

\* Nobody has the file open.
LEMMA Users_None ==
    ASSUME \A t \in Threads : fd[t] = None, NEW y \in Types
    PROVE  Users(y) = 0
<1>1. {t \in Threads : fd[t] = y} = {}
  BY FileAssumption DEF Types
<1>. QED BY <1>1, FS_EmptySet DEF Users

\* A step that counts in one slot only.
LEMMA Count_One ==
    ASSUME CountInv, NEW y \in Types,
           \A z \in Types \ {y} :
              /\ open_count'[z] = open_count[z] /\ aux_count'[z] = aux_count[z]
              /\ nmaps'[z] = nmaps[z] /\ Users(z)' = Users(z),
           UNCHANGED <<creating, restashed>>, Running, ~dead,
           (y = "FUFH_RDWR" => ~restashed) /\ Counted(y) => Counted(y)'
    PROVE  CountInv'
<1>. SUFFICES ASSUME NEW z \in Types, (z = "FUFH_RDWR" => ~restashed)
              PROVE  Counted(z)'
  BY DEF CountInv
<1>1. Counted(z)
  BY DEF CountInv
<1>2. CASE z = y
  BY <1>1, <1>2
<1>3. CASE z # y
  BY <1>1, <1>3 DEF Counted, FUFH_IS_VALID
<1>. QED BY <1>2, <1>3

\* The slots a descriptor can be mapped with.
LEMMA MapChoiceType ==
    ASSUME NEW t \in Threads, NEW c \in MapChoices(t)
    PROVE  /\ c[1] \in {"shared", "readonly", "private"} /\ c[1] # None
           /\ c[2] \in Types /\ fd[t] # None
BY FileAssumption DEF MapChoices, Types

\* The slots are named by strings.
LEMMA TypeNames ==
    /\ "FUFH_RDONLY" \in Types /\ "FUFH_RDWR" \in Types
    /\ "FUFH_WRONLY" \in Types
    /\ None \notin Types
BY FileAssumption DEF Types

\* Nobody yet.
LEMMA Init_Inv == Init => IInv
<1>. SUFFICES ASSUME Init PROVE IInv
  OBVIOUS
<1>. USE FileAssumption DEF Init, NoUses
<1>1. TypeOK
  <2>1. /\ fh_id \in [Types -> 0..MaxHandles]
        /\ open_count \in [Types -> 0..MaxUses]
        /\ aux_count \in [Types -> 0..1] /\ nmaps \in [Types -> 0..MaxUses]
        /\ creates \in 0..MaxCreates
    OBVIOUS
  <2>2. /\ type \in [Threads -> Types]
        /\ fd \in [Threads -> Types \union {None}]
        /\ map \in [Threads -> {"shared", "readonly", "private", None}]
    BY DEF Types
  <2>. QED BY <2>1, <2>2 DEF TypeOK
<1>2. Valid = {} BY DEF Valid, FUFH_IS_VALID
<1>3. NoPanic /\ LockInv BY DEF NoPanic, LockInv
<1>4. NewInv /\ MapInv BY DEF NewInv, Fresh, MapInv, Types
<1>5. HandlesMatch /\ LostInv BY <1>2 DEF HandlesMatch, LostInv
<1>6. CountInv
  <2>1. ASSUME NEW y \in Types PROVE Users(y) = 0 /\ ~FUFH_IS_VALID(y)
    <3>1. {t \in Threads : fd[t] = y} = {} BY DEF Types
    <3>. QED BY <3>1, FS_EmptySet DEF Users, FUFH_IS_VALID
  <2>. QED BY <2>1 DEF CountInv, Counted
<1>. QED BY <1>1, <1>3, <1>4, <1>5, <1>6 DEF IInv

\* open(O_CREAT) of a file that is not there.
LEMMA LookupMisses_Inv ==
    ASSUME IInv, NEW t \in Threads, LookupMisses(t)
    PROVE  IInv'
<1>. USE FileAssumption DEF nodeVars, createVars, slotVars, lockVars, procVars
<1>1. TypeOK'
  BY DEF IInv, TypeOK, LookupMisses, BigLockFree, Running
<1>2. NoPanic'
  BY DEF IInv, NoPanic, LookupMisses, BigLockFree, Running
<1>3. LockInv'
  BY DEF IInv, TypeOK, LockInv, LookupMisses, BigLockFree, Running
<1>4. NewInv'
  BY DEF IInv, TypeOK, NewInv, Fresh, LookupMisses, BigLockFree, Running
<1>5. HandlesMatch' /\ LostInv'
  BY Handles_Same DEF IInv, LookupMisses, BigLockFree, Running
<1>6. CountInv'
  BY Count_Same DEF IInv, Running, LookupMisses, BigLockFree
<1>7. MapInv'
  BY DEF IInv, TypeOK, MapInv, LookupMisses, BigLockFree, Running
<1>. QED BY <1>1, <1>2, <1>3, <1>4, <1>5, <1>6, <1>7 DEF IInv

\* A handle is stashed.
LEMMA fuse_vnop_create_Inv ==
    ASSUME IInv, NEW t \in Threads, fuse_vnop_create(t)
    PROVE  IInv'
<1>. USE FileAssumption DEF nodeVars, createVars, slotVars, lockVars, procVars
<1>1. TypeOK'
  <2>1. NewHandle \in 0..MaxHandles /\ NewHandle \in 1..MaxHandles
    BY NewHandleIsNew DEF IInv, TypeOK, fuse_vnop_create
  <2>2. fh_id' \in [Types -> 0..MaxHandles]
        /\ open_count' \in [Types -> 0..MaxUses]
    BY <2>1, TypeNames DEF IInv, TypeOK, fuse_vnop_create
  <2>3. lost' \subseteq opened' /\ opened' \subseteq 1..MaxHandles
    BY <2>1 DEF IInv, TypeOK, HandlesMatch, Valid, fuse_vnop_create,
      FUFH_IS_VALID, Types
  <2>4. pc' \in [Threads ->
             {"user", "create", "created", "contender", "awake",
              "preflight", "write"}]
    BY DEF IInv, TypeOK, fuse_vnop_create
  <2>. QED BY <2>1, <2>2, <2>3, <2>4 DEF IInv, TypeOK, fuse_vnop_create,
    BigLockFree
<1>2. NoPanic'
  BY DEF IInv, NoPanic, fuse_vnop_create, BigLockFree, Running
<1>3. LockInv'
  BY DEF IInv, TypeOK, LockInv, fuse_vnop_create, BigLockFree, Running
<1>4. NewInv'
  BY DEF IInv, TypeOK, NewInv, Fresh, fuse_vnop_create, BigLockFree, Running
<1>5. HandlesMatch' /\ LostInv'
  <2>. USE TypeNames
  <2>1. ~dead /\ HasHandle /\ opened' = opened \union {NewHandle}
        /\ UNCHANGED dead
    BY DEF fuse_vnop_create
  <2>2. NewHandle \notin opened
    BY <2>1, NewHandleIsNew
  <2>3. /\ Valid' = Valid \union {"FUFH_RDWR"}
        /\ fh_id'["FUFH_RDWR"] = NewHandle
        /\ \A z \in Valid \ {"FUFH_RDWR"} : fh_id'[z] = fh_id[z]
    BY DEF IInv, TypeOK, Valid, FUFH_IS_VALID, fuse_vnop_create
  <2>4. /\ opened = {fh_id[y] : y \in Valid} \union lost
        /\ \A y, z \in Valid : fh_id[y] = fh_id[z] => y = z
        /\ \A y \in Valid : fh_id[y] \notin lost
    BY <2>1 DEF IInv, HandlesMatch, LostInv
  <2>5. lost' = IF "FUFH_RDWR" \in Valid THEN lost \union {fh_id["FUFH_RDWR"]} ELSE lost
    BY DEF fuse_vnop_create, Valid
  <2>6. opened' = {fh_id'[y] : y \in Valid'} \union lost'
    BY <2>1, <2>3, <2>4, <2>5
  <2>7. \A y, z \in Valid' : fh_id'[y] = fh_id'[z] => y = z
    BY <2>2, <2>3, <2>4
  <2>8. \A y \in Valid' : fh_id'[y] \notin lost'
    BY <2>2, <2>3, <2>4, <2>5
  <2>. QED BY <2>6, <2>7, <2>8 DEF HandlesMatch, LostInv
<1>6. CountInv'
  <2>. SUFFICES ASSUME NEW z \in Types, z = "FUFH_RDWR" => ~restashed'
                PROVE  Counted(z)'
    BY DEF CountInv
  <2>1. Running /\ ~dead /\ Users(z)' = Users(z)
    BY DEF fuse_vnop_create, BigLockFree, Users
  <2>2. CASE z = "FUFH_RDWR"
    <3>1. ~present /\ creating' /\ open_count'[z] = 1
          /\ UNCHANGED <<nmaps, aux_count>>
      BY <2>2, TypeNames DEF IInv, TypeOK, fuse_vnop_create
    <3>2. nmaps[z] = 0 /\ aux_count[z] = 0 /\ ~FUFH_IS_VALID(z)
      BY <2>2, <3>1 DEF IInv, NewInv, Fresh, NoUses, FUFH_IS_VALID
    <3>3. Users(z) = 0
      BY <3>1, Users_None DEF IInv, NewInv, Fresh
    <3>. QED BY <2>1, <2>2, <3>1, <3>2, <3>3 DEF Counted, FUFH_IS_VALID
  <2>3. CASE z # "FUFH_RDWR"
    <3>1. Counted(z)
      BY <2>1, <2>3 DEF IInv, CountInv
    <3>2. /\ open_count'[z] = open_count[z] /\ UNCHANGED <<nmaps, aux_count>>
      BY <2>3 DEF IInv, TypeOK, fuse_vnop_create
    <3>. QED BY <2>1, <2>3, <3>1, <3>2 DEF Counted, FUFH_IS_VALID
  <2>. QED BY <2>2, <2>3
<1>7. MapInv'
  BY DEF IInv, TypeOK, MapInv, fuse_vnop_create, BigLockFree, Running
<1>. QED BY <1>1, <1>2, <1>3, <1>4, <1>5, <1>6, <1>7 DEF IInv

\* A file made without a handle, or not made.
LEMMA CreateOtherwise_Inv ==
    ASSUME IInv, NEW t \in Threads, CreateOtherwise(t)
    PROVE  IInv'
<1>. USE FileAssumption DEF nodeVars, createVars, slotVars, lockVars, procVars
<1>1. TypeOK'
  <2>1. pc' \in [Threads ->
             {"user", "create", "created", "contender", "awake",
              "preflight", "write"}]
    BY DEF IInv, TypeOK, CreateOtherwise
  <2>2. exists' \in BOOLEAN /\ present' \in BOOLEAN
    BY DEF IInv, TypeOK, CreateOtherwise
  <2>. QED BY <2>1, <2>2 DEF IInv, TypeOK, CreateOtherwise
<1>2. NoPanic'
  BY DEF IInv, NoPanic, CreateOtherwise, BigLockFree, Running
<1>3. LockInv'
  BY DEF IInv, TypeOK, LockInv, CreateOtherwise, BigLockFree, Running
<1>4. NewInv'
  BY DEF IInv, TypeOK, NewInv, Fresh, CreateOtherwise, BigLockFree, Running
<1>5. HandlesMatch' /\ LostInv'
  BY Handles_Same DEF IInv, CreateOtherwise, BigLockFree, Running
<1>6. CountInv'
  BY Count_Same DEF IInv, Running, CreateOtherwise, BigLockFree
<1>7. MapInv'
  BY DEF IInv, TypeOK, MapInv, CreateOtherwise, BigLockFree, Running
<1>. QED BY <1>1, <1>2, <1>3, <1>4, <1>5, <1>6, <1>7 DEF IInv

\* An open.
LEMMA fuse_vnop_open_Inv ==
    ASSUME IInv, NEW t \in Threads, fuse_vnop_open(t)
    PROVE  IInv'
<1>. USE FileAssumption DEF nodeVars, createVars, slotVars, lockVars, procVars
<1>1. ASSUME NEW y \in Types, CreatorOpens(t, y) PROVE IInv'
  <2>1. TypeOK'
    <3>1. pc' \in [Threads ->
               {"user", "create", "created", "contender", "awake",
                "preflight", "write"}]
      BY <1>1 DEF IInv, TypeOK, fuse_vnop_open, CreatorOpens
    <3>2. fd' \in [Threads -> Types \union {None}]
      BY <1>1 DEF IInv, TypeOK, fuse_vnop_open, CreatorOpens
    <3>3. open_count' \in [Types -> 0..MaxUses]
      BY <1>1, TypeNames DEF IInv, TypeOK, fuse_vnop_open, CreatorOpens,
        PickUpCounts
    <3>4. fh_id' \in [Types -> 0..MaxHandles]
      BY <1>1, TypeNames DEF IInv, TypeOK, fuse_vnop_open, CreatorOpens
    <3>. QED BY <1>1, <3>1, <3>2, <3>3, <3>4 DEF IInv, TypeOK,
      fuse_vnop_open, CreatorOpens
  <2>2. NoPanic'
    BY <1>1 DEF IInv, NoPanic, fuse_vnop_open, CreatorOpens, LocksFree,
      BigLockFree, Running
  <2>3. LockInv'
    BY <1>1 DEF IInv, TypeOK, LockInv, fuse_vnop_open, CreatorOpens, LocksFree,
      BigLockFree, Running
  <2>4. NewInv'
    BY <1>1 DEF IInv, TypeOK, NewInv, Fresh, fuse_vnop_open, CreatorOpens,
      LocksFree, BigLockFree, Running
  <2>5. HandlesMatch' /\ LostInv'
    <3>1. /\ creating /\ ~dead /\ Fresh
          /\ open_count = [NoUses EXCEPT !["FUFH_RDWR"] = 1]
          /\ fd' = [fd EXCEPT ![t] = y]
          /\ creating' = FALSE
          /\ UNCHANGED <<opened, lost, restashed, aux_count, nmaps, dead,
                panic>>
      BY <1>1 DEF IInv, NewInv, fuse_vnop_open, CreatorOpens
    <3>2. open_count' = [NoUses EXCEPT ![y] = 1]
          /\ fh_id' = [fh_id EXCEPT ![y] = fh_id["FUFH_RDWR"]]
      BY <1>1, <3>1, TypeNames DEF CreatorOpens, PickUpCounts, NoUses

    <3>3. Valid = {"FUFH_RDWR"} /\ Valid' = {y}
          /\ fh_id'[y] = fh_id["FUFH_RDWR"]
      BY <3>1, <3>2, TypeNames DEF IInv, TypeOK, Valid, FUFH_IS_VALID, NoUses
    <3>. QED BY <3>1, <3>3 DEF IInv, HandlesMatch, LostInv
  <2>6. CountInv'
    <3>1. /\ creating /\ ~dead /\ Fresh
          /\ open_count = [NoUses EXCEPT !["FUFH_RDWR"] = 1]
          /\ fd' = [fd EXCEPT ![t] = y]
          /\ creating' = FALSE
          /\ UNCHANGED <<opened, lost, restashed, aux_count, nmaps, dead,
                panic>>
      BY <1>1 DEF IInv, NewInv, fuse_vnop_open, CreatorOpens
    <3>2. open_count' = [NoUses EXCEPT ![y] = 1]
          /\ fh_id' = [fh_id EXCEPT ![y] = fh_id["FUFH_RDWR"]]
      BY <1>1, <3>1, TypeNames DEF CreatorOpens, PickUpCounts, NoUses

    <3>3. /\ Users(y)' = Users(y) + 1
          /\ \A z \in Types \ {y} : Users(z)' = Users(z)
      BY <3>1, Users_Open DEF IInv, TypeOK, Fresh
    <3>4. \A z \in Types : Users(z) = 0 /\ nmaps[z] = 0 /\ aux_count[z] = 0
      BY <3>1, Users_None DEF Fresh, NoUses
    <3>5. ASSUME NEW z \in Types PROVE Counted(z)'
      BY <3>1, <3>2, <3>3, <3>4, <3>5 DEF Counted, FUFH_IS_VALID, NoUses
    <3>. QED BY <3>5 DEF CountInv
  <2>7. MapInv'
    <3>1. /\ creating /\ ~dead /\ Fresh
          /\ open_count = [NoUses EXCEPT !["FUFH_RDWR"] = 1]
          /\ fd' = [fd EXCEPT ![t] = y]
          /\ creating' = FALSE
          /\ UNCHANGED <<opened, lost, restashed, aux_count, nmaps, dead,
                panic>>
      BY <1>1 DEF IInv, NewInv, fuse_vnop_open, CreatorOpens
    <3>2. open_count' = [NoUses EXCEPT ![y] = 1]
          /\ fh_id' = [fh_id EXCEPT ![y] = fh_id["FUFH_RDWR"]]
      BY <1>1, <3>1, TypeNames DEF CreatorOpens, PickUpCounts, NoUses

    <3>3. nmaps'["FUFH_RDONLY"] = 0 /\ open_count'["FUFH_RDONLY"] \in {0, 1}
      BY <3>1, <3>2, TypeNames DEF Fresh, NoUses
    <3>4. \A u \in Threads : pc'[u] = "preflight" => pc[u] = "preflight"
      BY <1>1 DEF CreatorOpens
    <3>. QED BY <1>1, <3>3, <3>4 DEF IInv, MapInv, fuse_vnop_open, CreatorOpens
  <2>. QED BY <2>1, <2>2, <2>3, <2>4, <2>5, <2>6, <2>7 DEF IInv
<1>2. ASSUME NEW y \in Types, ContenderSleeps(t, y) PROVE IInv'
  <2>1. TypeOK'
    BY <1>2 DEF IInv, TypeOK, fuse_vnop_open, ContenderSleeps, ContenderKeeps,
      LocksFree, BigLockFree, Running
  <2>2. NoPanic'
    BY <1>2 DEF IInv, NoPanic, fuse_vnop_open, ContenderSleeps, ContenderKeeps,
      LocksFree, BigLockFree, Running
  <2>3. LockInv'
    BY <1>2 DEF IInv, TypeOK, LockInv, fuse_vnop_open, ContenderSleeps,
      ContenderKeeps, LocksFree, BigLockFree, Running
  <2>4. NewInv'
    BY <1>2 DEF IInv, TypeOK, NewInv, Fresh, fuse_vnop_open, ContenderSleeps,
      ContenderKeeps, LocksFree, BigLockFree, Running
  <2>5. HandlesMatch' /\ LostInv'
    BY <1>2, Handles_Same DEF IInv, fuse_vnop_open, ContenderSleeps,
      ContenderKeeps, LocksFree, BigLockFree, Running
  <2>6. CountInv'
    BY <1>2, Count_Same DEF IInv, Running, fuse_vnop_open, ContenderSleeps,
      ContenderKeeps, LocksFree, BigLockFree
  <2>7. MapInv'
    BY <1>2 DEF IInv, TypeOK, MapInv, fuse_vnop_open, ContenderSleeps,
      ContenderKeeps, LocksFree, BigLockFree, Running
  <2>. QED BY <2>1, <2>2, <2>3, <2>4, <2>5, <2>6, <2>7 DEF IInv
<1>3. ASSUME NEW y \in Types, ~creating, FUFH_IS_VALID(y), UseInc(y),
            fd' = [fd EXCEPT ![t] = y] /\ used' = TRUE, Returns(t),
            KeepLocks /\ UNCHANGED createVars
     PROVE  IInv'
  <2>1. TypeOK'
    <3>1. pc' \in [Threads ->
               {"user", "create", "created", "contender", "awake",
                "preflight", "write"}]
      BY <1>3 DEF IInv, TypeOK, fuse_vnop_open, Returns
    <3>2. type' \in [Threads -> Types]
      BY <1>3, TypeNames DEF IInv, TypeOK, fuse_vnop_open, Returns
    <3>3. fd' \in [Threads -> Types \union {None}]
      BY <1>3 DEF IInv, TypeOK, fuse_vnop_open, Returns
    <3>4. open_count' \in [Types -> 0..MaxUses]
          /\ UNCHANGED <<fh_id, aux_count, opened, panic>>
      BY <1>3, Use_Slot DEF IInv, TypeOK
    <3>. QED BY <1>3, <3>1, <3>2, <3>3, <3>4 DEF IInv, TypeOK,
      fuse_vnop_open, Returns, KeepLocks
  <2>2. NoPanic'
    BY <1>3 DEF IInv, NoPanic, fuse_vnop_open, UseInc, Returns, KeepLocks,
      LocksFree, BigLockFree, Running
  <2>3. LockInv'
    BY <1>3 DEF IInv, TypeOK, LockInv, fuse_vnop_open, UseInc, Returns,
      KeepLocks, LocksFree, BigLockFree, Running
  <2>4. NewInv'
    BY <1>3 DEF IInv, TypeOK, NewInv, Fresh, fuse_vnop_open, UseInc, Returns,
      KeepLocks, LocksFree, BigLockFree, Running
  <2>5. HandlesMatch' /\ LostInv'
    <3>1. HandlesMatch' /\ LostInv'
      BY <1>3, Use_Slot, Handles_Use DEF IInv, fuse_vnop_open
    <3>. QED BY <3>1
  <2>6. CountInv'
    <3>1. /\ open_count' = [open_count EXCEPT ![y] = @ + 1]
          /\ UNCHANGED aux_count
          /\ open_count \in [Types -> Nat]
      BY <1>3, Use_Slot DEF IInv, TypeOK
    <3>2. /\ Users(y)' = Users(y) + 1 /\ Users(y) \in Nat
          /\ \A z \in Types \ {y} : Users(z)' = Users(z)
      BY <1>3, Users_Open, Users_Nat DEF IInv, TypeOK, fuse_vnop_open
    <3>3. UNCHANGED <<creating, restashed, nmaps>> /\ Running /\ ~dead
      BY <1>3 DEF fuse_vnop_open, LocksFree, BigLockFree
    <3>4. Counted(y) => Counted(y)'
      BY <1>3, <3>1, <3>2, <3>3 DEF IInv, TypeOK, Counted, FUFH_IS_VALID
    <3>. QED BY <3>1, <3>2, <3>3, <3>4, Count_One DEF IInv
  <2>7. MapInv'
    BY <1>3 DEF IInv, TypeOK, MapInv, fuse_vnop_open, UseInc, Returns,
      KeepLocks, LocksFree, BigLockFree, Running
  <2>. QED BY <2>1, <2>2, <2>3, <2>4, <2>5, <2>6, <2>7 DEF IInv
<1>4. ASSUME NEW y \in Types, ~creating, ~FUFH_IS_VALID(y),
            GetSucceeds(y, 0, "get"), fd' = [fd EXCEPT ![t] = y]
            /\ used' = TRUE,
            Returns(t), KeepLocks /\ UNCHANGED createVars
     PROVE  IInv'
  <2>1. TypeOK'
    <3>1. pc' \in [Threads ->
               {"user", "create", "created", "contender", "awake",
                "preflight", "write"}]
      BY <1>4 DEF IInv, TypeOK, fuse_vnop_open, Returns
    <3>2. type' \in [Threads -> Types]
      BY <1>4, TypeNames DEF IInv, TypeOK, fuse_vnop_open, Returns
    <3>3. fd' \in [Threads -> Types \union {None}]
      BY <1>4 DEF IInv, TypeOK, fuse_vnop_open, Returns
    <3>4. /\ fh_id' \in [Types -> 0..MaxHandles]
          /\ open_count' \in [Types -> 0..MaxUses]
          /\ aux_count' \in [Types -> 0..1]
          /\ lost \subseteq opened' /\ opened' \subseteq 1..MaxHandles
          /\ panic' = panic
      BY <1>4, Get_Slot DEF IInv, TypeOK
    <3>. QED BY <1>4, <3>1, <3>2, <3>3, <3>4 DEF IInv, TypeOK,
      fuse_vnop_open, Returns, KeepLocks
  <2>2. NoPanic'
    BY <1>4 DEF IInv, NoPanic, fuse_vnop_open, GetSucceeds, AuxAfterGet,
      Returns, KeepLocks, LocksFree, BigLockFree, Running
  <2>3. LockInv'
    BY <1>4 DEF IInv, TypeOK, LockInv, fuse_vnop_open, GetSucceeds,
      AuxAfterGet, Returns, KeepLocks, LocksFree, BigLockFree, Running
  <2>4. NewInv'
    BY <1>4 DEF IInv, TypeOK, NewInv, Fresh, fuse_vnop_open, GetSucceeds,
      AuxAfterGet, Returns, KeepLocks, LocksFree, BigLockFree, Running
  <2>5. HandlesMatch' /\ LostInv'
    <3>1. /\ ~dead /\ HasHandle /\ opened' = opened \union {NewHandle}
          /\ fh_id' = [fh_id EXCEPT ![y] = NewHandle]
          /\ open_count' = [open_count EXCEPT ![y] = 1]
          /\ aux_count' = [aux_count EXCEPT ![y] = 0] /\ panic' = panic
      BY <1>4, Get_Slot, TypeNames DEF IInv

    <3>2. UNCHANGED lost
      BY <1>4
    <3>. QED BY <1>4, <3>1, <3>2, Handles_Get DEF IInv
  <2>6. CountInv'
    <3>1. /\ ~dead /\ HasHandle /\ opened' = opened \union {NewHandle}
          /\ fh_id' = [fh_id EXCEPT ![y] = NewHandle]
          /\ open_count' = [open_count EXCEPT ![y] = 1]
          /\ aux_count' = [aux_count EXCEPT ![y] = 0] /\ panic' = panic
      BY <1>4, Get_Slot, TypeNames DEF IInv

    <3>2. /\ Users(y)' = Users(y) + 1 /\ Users(y) \in Nat
          /\ \A z \in Types \ {y} : Users(z)' = Users(z)
      BY <1>4, Users_Open, Users_Nat DEF IInv, TypeOK, fuse_vnop_open
    <3>3. UNCHANGED <<creating, restashed, nmaps>> /\ Running /\ ~dead
      BY <1>4 DEF fuse_vnop_open, LocksFree, BigLockFree
    <3>4. Counted(y) => Counted(y)'
      BY <1>4, <3>1, <3>2, <3>3 DEF IInv, TypeOK, Counted, FUFH_IS_VALID
    <3>. QED BY <3>1, <3>2, <3>3, <3>4, Count_One DEF IInv, TypeOK
  <2>7. MapInv'
    <3>1. /\ ~dead /\ HasHandle /\ opened' = opened \union {NewHandle}
          /\ fh_id' = [fh_id EXCEPT ![y] = NewHandle]
          /\ open_count' = [open_count EXCEPT ![y] = 1]
          /\ aux_count' = [aux_count EXCEPT ![y] = 0] /\ panic' = panic
      BY <1>4, Get_Slot, TypeNames DEF IInv

    <3>2. nmaps["FUFH_RDONLY"] <= open_count["FUFH_RDONLY"] /\ UNCHANGED nmaps
      BY <1>4 DEF IInv, MapInv, fuse_vnop_open, LocksFree, BigLockFree
    <3>3. nmaps'["FUFH_RDONLY"] <= open_count'["FUFH_RDONLY"]
      BY <1>4, <3>1, <3>2, TypeNames DEF IInv, TypeOK, FUFH_IS_VALID
    <3>. QED BY <1>4, <3>2, <3>3 DEF IInv, TypeOK, MapInv, fuse_vnop_open,
      Returns
  <2>. QED BY <2>1, <2>2, <2>3, <2>4, <2>5, <2>6, <2>7 DEF IInv
<1>5. CASE ~creating /\ OpenFails(t) /\ KeepLocks /\ UNCHANGED createVars
  <2>1. TypeOK'
    <3>1. pc' \in [Threads ->
               {"user", "create", "created", "contender", "awake",
                "preflight", "write"}]
      BY <1>5 DEF IInv, TypeOK, fuse_vnop_open, OpenFails, Returns
    <3>2. type' \in [Threads -> Types]
      BY <1>5, TypeNames DEF IInv, TypeOK, fuse_vnop_open, OpenFails, Returns
    <3>. QED BY <1>5, <3>1, <3>2 DEF IInv, TypeOK, fuse_vnop_open, OpenFails,
      Returns, KeepLocks
  <2>2. NoPanic'
    BY <1>5 DEF IInv, NoPanic, fuse_vnop_open, OpenFails, Returns, KeepLocks,
      LocksFree, BigLockFree, Running
  <2>3. LockInv'
    BY <1>5 DEF IInv, TypeOK, LockInv, fuse_vnop_open, OpenFails, Returns,
      KeepLocks, LocksFree, BigLockFree, Running
  <2>4. NewInv'
    BY <1>5 DEF IInv, TypeOK, NewInv, Fresh, fuse_vnop_open, OpenFails,
      Returns, KeepLocks, LocksFree, BigLockFree, Running
  <2>5. HandlesMatch' /\ LostInv'
    BY <1>5, Handles_Same DEF IInv, fuse_vnop_open, OpenFails, Returns,
      KeepLocks, LocksFree, BigLockFree, Running
  <2>6. CountInv'
    BY <1>5, Count_Same DEF IInv, Running, fuse_vnop_open, OpenFails, Returns,
      KeepLocks, LocksFree, BigLockFree
  <2>7. MapInv'
    BY <1>5 DEF IInv, TypeOK, MapInv, fuse_vnop_open, OpenFails, Returns,
      KeepLocks, LocksFree, BigLockFree, Running
  <2>. QED BY <2>1, <2>2, <2>3, <2>4, <2>5, <2>6, <2>7 DEF IInv
<1>. QED BY <1>1, <1>2, <1>3, <1>4, <1>5 DEF fuse_vnop_open, OpenSlot, Types

\* A contender is interrupted: awake it never is.
LEMMA ContenderGoesOn_Inv ==
    ASSUME IInv, NEW t \in Threads, ContenderGoesOn(t)
    PROVE  IInv'
<1>. USE FileAssumption DEF nodeVars, createVars, slotVars, lockVars, procVars
<1>0. pc[t] = "contender" /\ OpenFails(t)
  BY DEF IInv, LockInv, ContenderGoesOn
<1>1. TypeOK'
  <2>1. pc' \in [Threads ->
             {"user", "create", "created", "contender", "awake",
              "preflight", "write"}]
    BY <1>0 DEF IInv, TypeOK, OpenFails, Returns
  <2>2. type' \in [Threads -> Types]
    BY TypeNames, <1>0 DEF IInv, TypeOK, OpenFails, Returns
  <2>3. UNCHANGED <<nodeVars, createVars, slotVars, fd, used, map, nmaps, dirty,
              dead, opened, panic>> /\ nodelock' = None /\ biglock' = None
    BY <1>0 DEF IInv, TypeOK, ContenderGoesOn, OpenFails
  <2>. QED BY <2>1, <2>2, <2>3 DEF IInv, TypeOK
<1>2. NoPanic'
  BY <1>0 DEF IInv, NoPanic, ContenderGoesOn, OpenFails, Returns, Running
<1>3. LockInv'
  BY <1>0 DEF IInv, TypeOK, LockInv, ContenderGoesOn, OpenFails, Returns,
    Running
<1>4. NewInv'
  BY <1>0 DEF IInv, TypeOK, NewInv, Fresh, ContenderGoesOn, OpenFails, Returns,
    Running
<1>5. HandlesMatch' /\ LostInv'
  BY Handles_Same, <1>0 DEF IInv, ContenderGoesOn, OpenFails, Returns, Running
<1>6. CountInv'
  BY Count_Same, <1>0 DEF IInv, Running, ContenderGoesOn, OpenFails, Returns
<1>7. MapInv'
  BY <1>0 DEF IInv, TypeOK, MapInv, ContenderGoesOn, OpenFails, Returns,
    Running
<1>. QED BY <1>1, <1>2, <1>3, <1>4, <1>5, <1>6, <1>7 DEF IInv

\* A creator finds the session dead.
LEMMA CreatorLeaves_Inv ==
    ASSUME IInv, NEW t \in Threads, CreatorLeaves(t)
    PROVE  IInv'
<1>. USE FileAssumption DEF nodeVars, createVars, slotVars, lockVars, procVars
<1>1. TypeOK'
  BY DEF IInv, TypeOK, CreatorLeaves, Running
<1>2. NoPanic'
  BY DEF IInv, NoPanic, CreatorLeaves, Running
<1>3. LockInv'
  BY DEF IInv, TypeOK, LockInv, CreatorLeaves, Running
<1>4. NewInv'
  BY DEF IInv, TypeOK, NewInv, Fresh, CreatorLeaves, Running
<1>5. HandlesMatch' /\ LostInv'
  BY Handles_Same DEF IInv, CreatorLeaves, Running
<1>6. CountInv'
  BY Count_Same DEF IInv, Running, CreatorLeaves
<1>7. MapInv'
  BY DEF IInv, TypeOK, MapInv, CreatorLeaves, Running
<1>. QED BY <1>1, <1>2, <1>3, <1>4, <1>5, <1>6, <1>7 DEF IInv

\* A close.
LEMMA fuse_vnop_close_Inv ==
    ASSUME IInv, NEW t \in Threads, fuse_vnop_close(t)
    PROVE  IInv'
<1>. USE FileAssumption DEF nodeVars, createVars, slotVars, lockVars, procVars
<1>1. CASE /\ UNCHANGED <<slotVars, opened, panic>>
           /\ dead \/ ~FUFH_IS_VALID(fd[t])
  <2>0. /\ fd[t] \in Types /\ fd' = [fd EXCEPT ![t] = None] /\ Running
        /\ UNCHANGED <<creating, restashed, nmaps, dead, open_count, aux_count>>
    BY <1>1 DEF IInv, TypeOK, fuse_vnop_close, LocksFree, BigLockFree
  <2>1. TypeOK'
    BY <1>1 DEF IInv, TypeOK, fuse_vnop_close, LocksFree, BigLockFree, Running
  <2>2. NoPanic'
    BY <1>1 DEF IInv, NoPanic, fuse_vnop_close, LocksFree, BigLockFree, Running
  <2>3. LockInv'
    BY <1>1 DEF IInv, TypeOK, LockInv, fuse_vnop_close, LocksFree, BigLockFree,
      Running
  <2>4. NewInv'
    BY <1>1 DEF IInv, TypeOK, NewInv, Fresh, fuse_vnop_close, LocksFree,
      BigLockFree, Running
  <2>5. HandlesMatch' /\ LostInv'
    BY <1>1, Handles_Same DEF IInv, fuse_vnop_close, LocksFree, BigLockFree,
      Running
  <2>6. CountInv'
    <3>1. CASE dead
      BY <3>1, <2>0 DEF CountInv
    <3>2. CASE ~dead
      <4>1. PICK y \in Types : y = fd[t]
        BY <2>0
      <4>2. /\ Users(y) # 0
            /\ \A z \in Types \ {y} : Users(z)' = Users(z)
        BY <2>0, <4>1, Users_Close DEF IInv, TypeOK
      <4>3. ~FUFH_IS_VALID(y) /\ Users(y) # 0
            /\ \A z \in Types \ {y} : Users(z)' = Users(z)
        BY <1>1, <3>2, <4>1, <4>2
      <4>4. ~Counted(y)
        BY <4>3 DEF Counted
      <4>. QED BY <2>0, <3>2, <4>3, <4>4, Count_One DEF IInv
    <3>. QED BY <3>1, <3>2
  <2>7. MapInv'
    BY <1>1 DEF IInv, TypeOK, MapInv, fuse_vnop_close, LocksFree, BigLockFree,
      Running
  <2>. QED BY <2>1, <2>2, <2>3, <2>4, <2>5, <2>6, <2>7 DEF IInv
<1>2. CASE /\ ~dead /\ FUFH_IS_VALID(fd[t])
           /\ PutAll(IF LastUse(fd[t]) THEN {fd[t]} ELSE {},
                     [open_count EXCEPT ![fd[t]] = @ - 1])
           /\ UNCHANGED <<fh_id, aux_count>>
  <2>0. PICK y \in Types :
          /\ y = fd[t] /\ fd' = [fd EXCEPT ![t] = None] /\ Running /\ ~dead
          /\ UNCHANGED <<fh_id, aux_count, creating, restashed, lost, nmaps,
                dead, type, pc>>
          /\ open_count' = [open_count EXCEPT ![y] = @ - 1]
          /\ open_count[y] \in 1..MaxUses
          /\ opened' = opened \ {fh_id[z] : z \in IF open_count[y] = 1 THEN {y} ELSE {}}
          /\ panic' = panic
    <3>1. fd[t] \in Types /\ open_count[fd[t]] \in 1..MaxUses
      BY <1>2 DEF IInv, TypeOK, FUFH_IS_VALID, fuse_vnop_close
    <3>2. PICK y \in Types : y = fd[t]
      BY <3>1
    <3>3. /\ open_count' = [open_count EXCEPT ![y] = @ - 1]
          /\ panic' = IF \E z \in IF open_count[y] = 1 THEN {y} ELSE {} :
                            [open_count EXCEPT ![y] = @ - 1][z] > 0 THEN "put" ELSE panic
          /\ opened' = opened \ {fh_id[z] : z \in IF open_count[y] = 1 THEN {y} ELSE {}}
      BY <1>2, <3>2 DEF PutAll, LastUse
    <3>4. panic' = panic
      BY <3>3 DEF IInv, TypeOK
    <3>. QED BY <1>2, <3>1, <3>2, <3>3, <3>4 DEF fuse_vnop_close, LocksFree,
      BigLockFree
  <2>1. TypeOK'
    <3>1. PICK ys : ys = IF open_count[y] = 1 THEN {y} ELSE {}
      OBVIOUS
    <3>2. ys \subseteq Valid /\ Valid' = Valid \ ys
      BY <2>0, <3>1 DEF IInv, TypeOK, Valid, FUFH_IS_VALID
    <3>3. HandlesMatch' /\ LostInv' /\ lost' \subseteq opened'
      <4>1. opened' = opened \ {fh_id[z] : z \in ys}
            /\ \A z \in Valid' : fh_id'[z] = fh_id[z]
        BY <2>0, <3>1
      <4>. QED BY <2>0, <3>2, <4>1, Handles_Put DEF IInv
    <3>4. opened' \subseteq 1..MaxHandles
      BY <2>0 DEF IInv, TypeOK
    <3>5. open_count' \in [Types -> 0..MaxUses]
      BY <2>0 DEF IInv, TypeOK
    <3>6. fd' \in [Threads -> Types \union {None}]
      BY <2>0 DEF IInv, TypeOK
    <3>. QED BY <1>2, <2>0, <3>3, <3>4, <3>5, <3>6 DEF IInv, TypeOK,
      fuse_vnop_close
  <2>2. NoPanic'
    BY <1>2, <2>0 DEF IInv, NoPanic, fuse_vnop_close, PutAll, LocksFree,
      BigLockFree, Running
  <2>3. LockInv'
    BY <1>2 DEF IInv, TypeOK, LockInv, fuse_vnop_close, PutAll, LocksFree,
      BigLockFree, Running
  <2>4. NewInv'
    BY <1>2 DEF IInv, TypeOK, NewInv, Fresh, fuse_vnop_close, PutAll,
      LocksFree, BigLockFree, Running
  <2>5. HandlesMatch' /\ LostInv'
    <3>1. PICK ys : ys = IF open_count[y] = 1 THEN {y} ELSE {}
      OBVIOUS
    <3>2. ys \subseteq Valid /\ Valid' = Valid \ ys
      BY <2>0, <3>1 DEF IInv, TypeOK, Valid, FUFH_IS_VALID
    <3>3. HandlesMatch' /\ LostInv' /\ lost' \subseteq opened'
      <4>1. opened' = opened \ {fh_id[z] : z \in ys}
            /\ \A z \in Valid' : fh_id'[z] = fh_id[z]
        BY <2>0, <3>1
      <4>. QED BY <2>0, <3>2, <4>1, Handles_Put DEF IInv
    <3>. QED BY <3>3
  <2>6. CountInv'
    <3>1. /\ Users(y)' = Users(y) - 1 /\ Users(y) # 0 /\ Users(y) \in Nat
          /\ \A z \in Types \ {y} : Users(z)' = Users(z)
      BY <2>0, Users_Close, Users_Nat DEF IInv, TypeOK

    <3>2. Counted(y) => Counted(y)'
      BY <2>0, <3>1 DEF IInv, TypeOK, Counted, FUFH_IS_VALID
    <3>. QED BY <2>0, <3>1, <3>2, Count_One DEF IInv, TypeOK
  <2>7. MapInv'
    <3>1. /\ Users(y)' = Users(y) - 1 /\ Users(y) # 0 /\ Users(y) \in Nat
          /\ \A z \in Types \ {y} : Users(z)' = Users(z)
      BY <2>0, Users_Close, Users_Nat DEF IInv, TypeOK

    <3>2. CASE y = "FUFH_RDONLY"
      <4>1. Counted(y)
        BY <2>0, <3>2 DEF IInv, CountInv
      <4>2. nmaps[y] <= open_count[y] - 1
        BY <2>0, <3>1, <4>1 DEF IInv, TypeOK, Counted, FUFH_IS_VALID
      <4>. QED BY <1>2, <2>0, <3>2, <4>2 DEF IInv, TypeOK, MapInv,
        fuse_vnop_close
    <3>3. CASE y # "FUFH_RDONLY"
      <4>1. open_count'["FUFH_RDONLY"] = open_count["FUFH_RDONLY"]
        BY <2>0, <3>3, TypeNames DEF IInv, TypeOK
      <4>. QED BY <1>2, <2>0, <4>1 DEF IInv, MapInv, fuse_vnop_close
    <3>. QED BY <3>2, <3>3
  <2>. QED BY <2>1, <2>2, <2>3, <2>4, <2>5, <2>6, <2>7 DEF IInv
<1>. QED BY <1>1, <1>2 DEF fuse_vnop_close

\* The assertion of mmap fails.
LEMMA MmapOnDead_Inv ==
    ASSUME IInv, NEW t \in Threads, MmapOnDead(t)
    PROVE  IInv'
<1>. USE FileAssumption DEF nodeVars, createVars, slotVars, lockVars, procVars
<1>1. TypeOK'
  BY DEF IInv, TypeOK, MmapOnDead, LocksFree, BigLockFree, Running
<1>2. NoPanic'
  BY DEF IInv, NoPanic, MmapOnDead, LocksFree, BigLockFree, Running
<1>3. LockInv'
  BY DEF IInv, TypeOK, LockInv, MmapOnDead, LocksFree, BigLockFree, Running
<1>4. NewInv'
  BY DEF IInv, TypeOK, NewInv, Fresh, MmapOnDead, LocksFree, BigLockFree,
    Running
<1>5. HandlesMatch' /\ LostInv'
  BY Handles_Same DEF IInv, MmapOnDead, LocksFree, BigLockFree, Running
<1>6. CountInv'
  BY Count_Same DEF IInv, Running, MmapOnDead, LocksFree, BigLockFree
<1>7. MapInv'
  BY DEF IInv, TypeOK, MapInv, MmapOnDead, LocksFree, BigLockFree, Running
<1>. QED BY <1>1, <1>2, <1>3, <1>4, <1>5, <1>6, <1>7 DEF IInv

\* A mapping is counted, or needs a handle.
LEMMA fuse_vnop_mmap_Inv ==
    ASSUME IInv, NEW t \in Threads, fuse_vnop_mmap(t)
    PROVE  IInv'
<1>. USE FileAssumption DEF nodeVars, createVars, slotVars, lockVars, procVars
<1>1. ASSUME NEW c \in MapChoices(t), nmaps[c[2]] < MaxUses,
            map' = [map EXCEPT ![t] = c[1]], FUFH_IS_VALID(c[2]), MapUse(c[2]),
            nmaps' = [nmaps EXCEPT ![c[2]] = @ + 1],
            UNCHANGED <<pc, type, nodelock>>
     PROVE  IInv'
  <2>0. PICK y \in Types :
          /\ y = c[2] /\ c[1] # None
          /\ c[1] \in {"shared", "readonly", "private"}
          /\ fd[t] # None /\ UseInc(y) /\ FUFH_IS_VALID(y) /\ Running /\ ~dead
          /\ nmaps[y] < MaxUses /\ nmaps' = [nmaps EXCEPT ![y] = @ + 1]
          /\ UNCHANGED <<creating, restashed, lost, dead, fd, present>>
          /\ open_count' = [open_count EXCEPT ![y] = @ + 1]
          /\ open_count' \in [Types -> 0..MaxUses] /\ Valid' = Valid
          /\ UNCHANGED <<fh_id, aux_count, opened, panic>>
    <3>1. PICK y \in Types : y = c[2] /\ c[1] # None
            /\ c[1] \in {"shared", "readonly", "private"} /\ fd[t] # None
      BY MapChoiceType
    <3>2. UseInc(y) /\ FUFH_IS_VALID(y) /\ nmaps[y] < MaxUses
          /\ nmaps' = [nmaps EXCEPT ![y] = @ + 1]
      BY <1>1, <3>1 DEF MapUse
    <3>3. Running /\ ~dead
          /\ UNCHANGED <<creating, restashed, lost, dead, fd, present>>
      BY DEF fuse_vnop_mmap, LocksFree, BigLockFree
    <3>4. /\ open_count' = [open_count EXCEPT ![y] = @ + 1]
          /\ open_count' \in [Types -> 0..MaxUses] /\ Valid' = Valid
          /\ UNCHANGED <<fh_id, aux_count, opened, panic>>
      BY <3>2, Use_Slot DEF IInv
    <3>. QED BY <3>1, <3>2, <3>3, <3>4
  <2>1. TypeOK'
    <3>1. map' \in [Threads -> {"shared", "readonly", "private", None}]
      BY <1>1, <2>0 DEF IInv, TypeOK
    <3>2. nmaps' \in [Types -> 0..MaxUses]
      BY <1>1, <2>0 DEF IInv, TypeOK
    <3>. QED BY <1>1, <2>0, <3>1, <3>2 DEF IInv, TypeOK, fuse_vnop_mmap
  <2>2. NoPanic'
    BY <1>1 DEF IInv, NoPanic, fuse_vnop_mmap, MapUse, UseInc, LocksFree,
      BigLockFree, Running
  <2>3. LockInv'
    BY <1>1 DEF IInv, TypeOK, LockInv, fuse_vnop_mmap, MapUse, UseInc,
      LocksFree, BigLockFree, Running
  <2>4. NewInv'
    <3>1. present /\ ~creating /\ UNCHANGED <<present, creating>>
      BY <2>0 DEF IInv, NewInv, Fresh, fuse_vnop_mmap
    <3>. QED BY <3>1 DEF IInv, NewInv
  <2>5. HandlesMatch' /\ LostInv'
    BY <1>1, <2>0, Handles_Use DEF IInv, fuse_vnop_mmap, MapUse, UseInc,
      LocksFree, BigLockFree, Running
  <2>6. CountInv'
    <3>1. \A z \in Types : Users(z)' = Users(z) /\ Users(z) \in Nat
      BY <2>0, Users_Nat DEF Users
    <3>2. Counted(y) => Counted(y)'
      BY <2>0, <3>1 DEF IInv, TypeOK, Counted, FUFH_IS_VALID
    <3>. QED BY <2>0, <3>1, <3>2, Count_One DEF IInv, TypeOK
  <2>7. MapInv'
    <3>1. \A u \in Threads : pc'[u] # "preflight"
      BY <1>1 DEF IInv, LockInv, fuse_vnop_mmap, LocksFree
    <3>2. nmaps'["FUFH_RDONLY"] <= open_count'["FUFH_RDONLY"]
      BY <2>0, TypeNames DEF IInv, TypeOK, MapInv
    <3>. QED BY <3>1, <3>2 DEF MapInv
  <2>. QED BY <2>1, <2>2, <2>3, <2>4, <2>5, <2>6, <2>7 DEF IInv
<1>2. ASSUME NEW c \in MapChoices(t), nmaps[c[2]] < MaxUses,
            map' = [map EXCEPT ![t] = c[1]], ~FUFH_IS_VALID(c[2]),
            pc' = [pc EXCEPT ![t] = "preflight"],
            type' = [type EXCEPT ![t] = c[2]], nodelock' = t,
            UNCHANGED <<slotVars, opened, nmaps, panic>>
     PROVE  IInv'
  <2>0. c[2] \in Types /\ c[1] # None
        /\ c[1] \in {"shared", "readonly", "private"} /\ fd[t] # None
    BY MapChoiceType
  <2>1. TypeOK'
    <3>1. map' \in [Threads -> {"shared", "readonly", "private", None}]
      BY <1>2, <2>0 DEF IInv, TypeOK
    <3>2. pc' \in [Threads ->
               {"user", "create", "created", "contender", "awake",
                "preflight", "write"}]
      BY <1>2 DEF IInv, TypeOK
    <3>3. type' \in [Threads -> Types]
      BY <1>2, <2>0 DEF IInv, TypeOK
    <3>. QED BY <1>2, <3>1, <3>2, <3>3 DEF IInv, TypeOK, fuse_vnop_mmap
  <2>2. NoPanic'
    BY <1>2 DEF IInv, NoPanic, fuse_vnop_mmap, LocksFree, BigLockFree, Running
  <2>3. LockInv'
    BY <1>2 DEF IInv, TypeOK, LockInv, fuse_vnop_mmap, LocksFree, BigLockFree,
      Running
  <2>4. NewInv'
    <3>1. present /\ ~creating /\ UNCHANGED <<present, creating>>
      BY <2>0 DEF IInv, NewInv, Fresh, fuse_vnop_mmap
    <3>. QED BY <3>1 DEF IInv, NewInv
  <2>5. HandlesMatch' /\ LostInv'
    BY <1>2, Handles_Same DEF IInv, fuse_vnop_mmap, LocksFree, BigLockFree,
      Running
  <2>6. CountInv'
    BY <1>2, Count_Same DEF IInv, Running, fuse_vnop_mmap, LocksFree,
      BigLockFree
  <2>7. MapInv'
    <3>1. \A u \in Threads : pc'[u] = "preflight" => u = t
      BY <1>2 DEF IInv, TypeOK, LockInv, fuse_vnop_mmap, LocksFree
    <3>2. nmaps'[type'[t]] < MaxUses /\ map'[t] # None
      BY <1>2, <2>0 DEF IInv, TypeOK
    <3>3. Running' => nmaps'["FUFH_RDONLY"] <= open_count'["FUFH_RDONLY"]
      BY <1>2 DEF IInv, MapInv, Running
    <3>. QED BY <3>1, <3>2, <3>3 DEF MapInv
  <2>. QED BY <2>1, <2>2, <2>3, <2>4, <2>5, <2>6, <2>7 DEF IInv
<1>. QED BY <1>1, <1>2 DEF fuse_vnop_mmap

\* A mapping gets its handle, or none.
LEMMA MmapGets_Inv ==
    ASSUME IInv, NEW t \in Threads, MmapGets(t)
    PROVE  IInv'
<1>. USE FileAssumption DEF nodeVars, createVars, slotVars, lockVars, procVars
<1>0. PICK y \in Types :
        /\ y = type[t] /\ nmaps[y] < MaxUses /\ Running /\ present /\ ~creating
        /\ UNCHANGED <<creating, restashed, lost, dead, fd, present>>
        /\ \A u \in Threads : pc'[u] # "preflight"
  <2>1. PICK y \in Types : y = type[t]
    BY DEF IInv, TypeOK
  <2>2. nmaps[y] < MaxUses /\ map[t] # None /\ Running
    BY <2>1 DEF IInv, MapInv, MmapGets, BigLockFree
  <2>3. present /\ ~creating
        /\ UNCHANGED <<creating, restashed, lost, dead, fd, present>>
    BY <2>2 DEF IInv, NewInv, Fresh, MmapGets
  <2>4. \A u \in Threads : pc'[u] # "preflight"
    BY DEF IInv, TypeOK, LockInv, MmapGets, Returns
  <2>. QED BY <2>1, <2>2, <2>3, <2>4
<1>1. CASE /\ GetSucceeds(type[t], 0, "mmap_raced") /\ FUFH_IS_VALID(type[t])
           /\ nmaps' = [nmaps EXCEPT ![type[t]] = @ + 1] /\ UNCHANGED map
  <2>1. TypeOK'
    <3>1. pc' \in [Threads ->
               {"user", "create", "created", "contender", "awake",
                "preflight", "write"}]
      BY <1>1 DEF IInv, TypeOK, MmapGets, Returns
    <3>2. type' \in [Threads -> Types]
      BY <1>1, TypeNames DEF IInv, TypeOK, MmapGets, Returns
    <3>3. nmaps' \in [Types -> 0..MaxUses]
      BY <1>1, <1>0 DEF IInv, TypeOK
    <3>4. /\ UNCHANGED <<slotVars, opened>>
          /\ panic' \in {"no", "get", "put", "mmap_raced", "mmap_dead"}
      BY <1>1, <1>0 DEF IInv, TypeOK, GetSucceeds
    <3>. QED BY <1>1, <3>1, <3>2, <3>3, <3>4 DEF IInv, TypeOK, MmapGets,
      Returns
  <2>2. NoPanic'
    BY <1>1 DEF IInv, NoPanic, MmapGets, GetSucceeds, Returns, BigLockFree,
      Running
  <2>3. LockInv'
    BY <1>1 DEF IInv, TypeOK, LockInv, MmapGets, GetSucceeds, Returns,
      BigLockFree, Running
  <2>4. NewInv'
    <3>1. present' /\ ~creating'
      BY <1>0
    <3>. QED BY <3>1 DEF NewInv
  <2>5. HandlesMatch' /\ LostInv'
    BY <1>1, Handles_Same DEF IInv, MmapGets, GetSucceeds, Returns,
      BigLockFree, Running
  <2>6. CountInv'
    <3>1. ~Running'
      BY <1>1, <1>0 DEF GetSucceeds, Running
    <3>. QED BY <1>0, <3>1 DEF CountInv
  <2>7. MapInv'
    <3>1. ~Running'
      BY <1>1, <1>0 DEF GetSucceeds, Running
    <3>. QED BY <1>0, <3>1 DEF MapInv
  <2>. QED BY <2>1, <2>2, <2>3, <2>4, <2>5, <2>6, <2>7 DEF IInv
<1>2. CASE /\ GetSucceeds(type[t], 0, "mmap_raced") /\ ~FUFH_IS_VALID(type[t])
           /\ nmaps' = [nmaps EXCEPT ![type[t]] = @ + 1] /\ UNCHANGED map
  <2>0. /\ ~dead /\ HasHandle /\ opened' = opened \union {NewHandle}
        /\ fh_id' = [fh_id EXCEPT ![y] = NewHandle]
        /\ open_count' = [open_count EXCEPT ![y] = 1]
        /\ aux_count' = [aux_count EXCEPT ![y] = 0]
        /\ fh_id' \in [Types -> 0..MaxHandles]
        /\ open_count' \in [Types -> 0..MaxUses]
        /\ aux_count' \in [Types -> 0..1]
        /\ lost \subseteq opened' /\ opened' \subseteq 1..MaxHandles
        /\ panic' = panic /\ ~FUFH_IS_VALID(y)
        /\ nmaps' = [nmaps EXCEPT ![y] = @ + 1]
    BY <1>2, <1>0, Get_Slot DEF IInv
  <2>1. TypeOK'
    <3>1. pc' \in [Threads ->
               {"user", "create", "created", "contender", "awake",
                "preflight", "write"}]
      BY <1>2 DEF IInv, TypeOK, MmapGets, Returns
    <3>2. type' \in [Threads -> Types]
      BY <1>2, TypeNames DEF IInv, TypeOK, MmapGets, Returns
    <3>3. nmaps' \in [Types -> 0..MaxUses]
      BY <1>2, <1>0 DEF IInv, TypeOK
    <3>. QED BY <1>2, <1>0, <2>0, <3>1, <3>2, <3>3 DEF IInv, TypeOK, MmapGets,
      Returns
  <2>2. NoPanic'
    BY <1>2 DEF IInv, NoPanic, MmapGets, GetSucceeds, AuxAfterGet, Returns,
      BigLockFree, Running
  <2>3. LockInv'
    BY <1>2 DEF IInv, TypeOK, LockInv, MmapGets, GetSucceeds, AuxAfterGet,
      Returns, BigLockFree, Running
  <2>4. NewInv'
    <3>1. present' /\ ~creating'
      BY <1>0
    <3>. QED BY <3>1 DEF NewInv
  <2>5. HandlesMatch' /\ LostInv'
    <3>1. HandlesMatch' /\ LostInv'
      BY <1>0, <2>0, Handles_Get DEF IInv
    <3>. QED BY <3>1
  <2>6. CountInv'
    <3>1. \A z \in Types : Users(z)' = Users(z) /\ Users(z) \in Nat
      BY <1>0, Users_Nat DEF Users
    <3>2. Counted(y) => Counted(y)'
      BY <1>0, <2>0, <3>1 DEF IInv, TypeOK, Counted, FUFH_IS_VALID
    <3>. QED BY <1>0, <2>0, <3>1, <3>2, Count_One DEF IInv, TypeOK
  <2>7. MapInv'
    <3>1. nmaps["FUFH_RDONLY"] <= open_count["FUFH_RDONLY"]
      BY <1>0 DEF IInv, MapInv
    <3>2. nmaps'["FUFH_RDONLY"] <= open_count'["FUFH_RDONLY"]
      BY <1>0, <2>0, <3>1, TypeNames DEF IInv, TypeOK, FUFH_IS_VALID
    <3>. QED BY <1>0, <3>2 DEF MapInv
  <2>. QED BY <2>1, <2>2, <2>3, <2>4, <2>5, <2>6, <2>7 DEF IInv
<1>3. CASE /\ map' = [map EXCEPT ![t] = None]
           /\ UNCHANGED <<slotVars, opened, nmaps, panic>>
  <2>1. TypeOK'
    <3>1. pc' \in [Threads ->
               {"user", "create", "created", "contender", "awake",
                "preflight", "write"}]
      BY <1>3 DEF IInv, TypeOK, MmapGets, Returns
    <3>2. type' \in [Threads -> Types]
      BY <1>3, TypeNames DEF IInv, TypeOK, MmapGets, Returns
    <3>3. map' \in [Threads -> {"shared", "readonly", "private", None}]
      BY <1>3 DEF IInv, TypeOK
    <3>. QED BY <1>3, <3>1, <3>2, <3>3 DEF IInv, TypeOK, MmapGets, Returns
  <2>2. NoPanic'
    BY <1>3 DEF IInv, NoPanic, MmapGets, Returns, BigLockFree, Running
  <2>3. LockInv'
    BY <1>3 DEF IInv, TypeOK, LockInv, MmapGets, Returns, BigLockFree, Running
  <2>4. NewInv'
    <3>1. present' /\ ~creating'
      BY <1>0
    <3>. QED BY <3>1 DEF NewInv
  <2>5. HandlesMatch' /\ LostInv'
    BY <1>3, Handles_Same DEF IInv, MmapGets, Returns, BigLockFree, Running
  <2>6. CountInv'
    BY <1>3, Count_Same DEF IInv, Running, MmapGets, Returns, BigLockFree
  <2>7. MapInv'
    <3>1. Running' => nmaps'["FUFH_RDONLY"] <= open_count'["FUFH_RDONLY"]
      BY <1>3, <1>0 DEF IInv, MapInv
    <3>. QED BY <1>0, <3>1 DEF MapInv
  <2>. QED BY <2>1, <2>2, <2>3, <2>4, <2>5, <2>6, <2>7 DEF IInv
<1>4. CASE /\ FUFH_IS_VALID("FUFH_RDONLY") /\ MapUse("FUFH_RDONLY")
           /\ nmaps' = [nmaps EXCEPT !["FUFH_RDONLY"] = @ + 1] /\ UNCHANGED map
  <2>0. /\ open_count' = [open_count EXCEPT !["FUFH_RDONLY"] = @ + 1]
        /\ open_count["FUFH_RDONLY"] \in 1..MaxUses
        /\ open_count["FUFH_RDONLY"] < MaxUses
        /\ open_count' \in [Types -> 0..MaxUses] /\ Valid' = Valid
        /\ UNCHANGED <<fh_id, aux_count, opened, panic>>
        /\ nmaps["FUFH_RDONLY"] <= open_count["FUFH_RDONLY"]
        /\ nmaps' = [nmaps EXCEPT !["FUFH_RDONLY"] = @ + 1]
    <3>1. UseInc("FUFH_RDONLY") /\ open_count["FUFH_RDONLY"] \in 1..MaxUses
      BY <1>4, TypeNames DEF IInv, TypeOK, FUFH_IS_VALID, MapUse
    <3>2. nmaps["FUFH_RDONLY"] <= open_count["FUFH_RDONLY"]
      BY <1>0 DEF IInv, MapInv
    <3>. QED BY <1>4, <3>1, <3>2, Use_Slot, TypeNames DEF IInv, UseInc
  <2>1. TypeOK'
    <3>1. pc' \in [Threads ->
               {"user", "create", "created", "contender", "awake",
                "preflight", "write"}]
      BY <1>4 DEF IInv, TypeOK, MmapGets, Returns
    <3>2. type' \in [Threads -> Types]
      BY <1>4, TypeNames DEF IInv, TypeOK, MmapGets, Returns
    <3>3. nmaps' \in [Types -> 0..MaxUses]
      BY <1>4, <2>0, TypeNames DEF IInv, TypeOK
    <3>. QED BY <1>4, <1>0, <2>0, <3>1, <3>2, <3>3 DEF IInv, TypeOK, MmapGets,
      Returns
  <2>2. NoPanic'
    BY <1>4 DEF IInv, NoPanic, MmapGets, MapUse, UseInc, Returns, BigLockFree,
      Running
  <2>3. LockInv'
    BY <1>4 DEF IInv, TypeOK, LockInv, MmapGets, MapUse, UseInc, Returns,
      BigLockFree, Running
  <2>4. NewInv'
    <3>1. present' /\ ~creating'
      BY <1>0
    <3>. QED BY <3>1 DEF NewInv
  <2>5. HandlesMatch' /\ LostInv'
    <3>1. HandlesMatch' /\ LostInv'
      BY <1>0, <2>0, Handles_Use DEF IInv
    <3>. QED BY <3>1
  <2>6. CountInv'
    <3>1. CASE dead
      BY <1>0, <3>1 DEF CountInv
    <3>2. CASE ~dead
      <4>1. \A z \in Types : Users(z)' = Users(z) /\ Users(z) \in Nat
        BY <1>0, Users_Nat DEF Users
      <4>2. Counted("FUFH_RDONLY") => Counted("FUFH_RDONLY")'
        BY <1>0, <2>0, <4>1, TypeNames DEF IInv, TypeOK, Counted, FUFH_IS_VALID
      <4>. QED BY <1>0, <2>0, <3>2, <4>1, <4>2, TypeNames, Count_One DEF IInv,
        TypeOK
    <3>. QED BY <3>1, <3>2
  <2>7. MapInv'
    <3>1. nmaps'["FUFH_RDONLY"] <= open_count'["FUFH_RDONLY"]
      BY <2>0, TypeNames DEF IInv, TypeOK
    <3>. QED BY <1>0, <3>1 DEF MapInv
  <2>. QED BY <2>1, <2>2, <2>3, <2>4, <2>5, <2>6, <2>7 DEF IInv
<1>. QED BY <1>1, <1>2, <1>3, <1>4 DEF MmapGets

\* A mapping for writing becomes one for reading.
LEMMA MmapRetries_Inv ==
    ASSUME IInv, NEW t \in Threads, MmapRetries(t)
    PROVE  IInv'
<1>. USE FileAssumption DEF nodeVars, createVars, slotVars, lockVars, procVars
<1>1. TypeOK'
  <2>1. type' \in [Threads -> Types]
    BY TypeNames DEF IInv, TypeOK, MmapRetries
  <2>. QED BY <2>1 DEF IInv, TypeOK, MmapRetries
<1>2. NoPanic'
  BY DEF IInv, NoPanic, MmapRetries, BigLockFree, Running
<1>3. LockInv'
  BY DEF IInv, TypeOK, LockInv, MmapRetries, BigLockFree, Running
<1>4. NewInv'
  BY DEF IInv, TypeOK, NewInv, Fresh, MmapRetries, BigLockFree, Running
<1>5. HandlesMatch' /\ LostInv'
  BY Handles_Same DEF IInv, MmapRetries, BigLockFree, Running
<1>6. CountInv'
  BY Count_Same DEF IInv, Running, MmapRetries, BigLockFree
<1>7. MapInv'
  <2>1. nmaps["FUFH_RDONLY"] <= open_count["FUFH_RDONLY"]
        /\ open_count["FUFH_RDONLY"] = 0
    BY TypeNames DEF IInv, TypeOK, MapInv, MmapRetries, BigLockFree,
        FUFH_IS_VALID
  <2>2. nmaps["FUFH_RDONLY"] < MaxUses
    BY <2>1, TypeNames DEF IInv, TypeOK
  <2>. QED BY <2>1, <2>2 DEF IInv, TypeOK, MapInv, MmapRetries
<1>. QED BY <1>1, <1>2, <1>3, <1>4, <1>5, <1>6, <1>7 DEF IInv

\* A mapping ends.
LEMMA fuse_vnop_mnomap_Inv ==
    ASSUME IInv, NEW t \in Threads, fuse_vnop_mnomap(t)
    PROVE  IInv'
<1>. USE FileAssumption DEF nodeVars, createVars, slotVars, lockVars, procVars
<1>1. TypeOK'
  BY DEF IInv, TypeOK, fuse_vnop_mnomap, LocksFree, BigLockFree, Running
<1>2. NoPanic'
  BY DEF IInv, NoPanic, fuse_vnop_mnomap, LocksFree, BigLockFree, Running
<1>3. LockInv'
  BY DEF IInv, TypeOK, LockInv, fuse_vnop_mnomap, LocksFree, BigLockFree,
    Running
<1>4. NewInv'
  BY DEF IInv, TypeOK, NewInv, Fresh, fuse_vnop_mnomap, LocksFree, BigLockFree,
    Running
<1>5. HandlesMatch' /\ LostInv'
  BY Handles_Same DEF IInv, fuse_vnop_mnomap, LocksFree, BigLockFree, Running
<1>6. CountInv'
  BY Count_Same DEF IInv, Running, fuse_vnop_mnomap, LocksFree, BigLockFree
<1>7. MapInv'
  BY DEF IInv, TypeOK, MapInv, fuse_vnop_mnomap, LocksFree, BigLockFree,
    Running
<1>. QED BY <1>1, <1>2, <1>3, <1>4, <1>5, <1>6, <1>7 DEF IInv

\* A page becomes dirty.
LEMMA Store_Inv ==
    ASSUME IInv, NEW t \in Threads, Store(t)
    PROVE  IInv'
<1>. USE FileAssumption DEF nodeVars, createVars, slotVars, lockVars, procVars
<1>1. TypeOK'
  BY DEF IInv, TypeOK, Store, Running
<1>2. NoPanic'
  BY DEF IInv, NoPanic, Store, Running
<1>3. LockInv'
  BY DEF IInv, TypeOK, LockInv, Store, Running
<1>4. NewInv'
  BY DEF IInv, TypeOK, NewInv, Fresh, Store, Running
<1>5. HandlesMatch' /\ LostInv'
  BY Handles_Same DEF IInv, Store, Running
<1>6. CountInv'
  BY Count_Same DEF IInv, Running, Store
<1>7. MapInv'
  BY DEF IInv, TypeOK, MapInv, Store, Running
<1>. QED BY <1>1, <1>2, <1>3, <1>4, <1>5, <1>6, <1>7 DEF IInv

\* A write begins.
LEMMA fuse_vnop_write_Inv ==
    ASSUME IInv, NEW t \in Threads, fuse_vnop_write(t)
    PROVE  IInv'
<1>. USE FileAssumption DEF nodeVars, createVars, slotVars, lockVars, procVars
<1>1. TypeOK'
  BY DEF IInv, TypeOK, fuse_vnop_write, LocksFree, BigLockFree, Running
<1>2. NoPanic'
  BY DEF IInv, NoPanic, fuse_vnop_write, LocksFree, BigLockFree, Running
<1>3. LockInv'
  BY DEF IInv, TypeOK, LockInv, fuse_vnop_write, LocksFree, BigLockFree,
    Running
<1>4. NewInv'
  BY DEF IInv, TypeOK, NewInv, Fresh, fuse_vnop_write, LocksFree, BigLockFree,
    Running
<1>5. HandlesMatch' /\ LostInv'
  BY Handles_Same DEF IInv, fuse_vnop_write, LocksFree, BigLockFree, Running
<1>6. CountInv'
  BY Count_Same DEF IInv, Running, fuse_vnop_write, LocksFree, BigLockFree
<1>7. MapInv'
  BY DEF IInv, TypeOK, MapInv, fuse_vnop_write, LocksFree, BigLockFree, Running
<1>. QED BY <1>1, <1>2, <1>3, <1>4, <1>5, <1>6, <1>7 DEF IInv

\* A write ends.
LEMMA WriteEnds_Inv ==
    ASSUME IInv, NEW t \in Threads, WriteEnds(t)
    PROVE  IInv'
<1>. USE FileAssumption DEF nodeVars, createVars, slotVars, lockVars, procVars
<1>1. TypeOK'
  BY DEF IInv, TypeOK, WriteEnds, BigLockFree, Running
<1>2. NoPanic'
  BY DEF IInv, NoPanic, WriteEnds, BigLockFree, Running
<1>3. LockInv'
  BY DEF IInv, TypeOK, LockInv, WriteEnds, BigLockFree, Running
<1>4. NewInv'
  BY DEF IInv, TypeOK, NewInv, Fresh, WriteEnds, BigLockFree, Running
<1>5. HandlesMatch' /\ LostInv'
  BY Handles_Same DEF IInv, WriteEnds, BigLockFree, Running
<1>6. CountInv'
  BY Count_Same DEF IInv, Running, WriteEnds, BigLockFree
<1>7. MapInv'
  BY DEF IInv, TypeOK, MapInv, WriteEnds, BigLockFree, Running
<1>. QED BY <1>1, <1>2, <1>3, <1>4, <1>5, <1>6, <1>7 DEF IInv

\* A directory is opened for one call.
LEMMA fuse_vnop_readdir_Inv ==
    ASSUME IInv, NEW t \in Threads, fuse_vnop_readdir(t)
    PROVE  IInv'
<1>. USE FileAssumption DEF nodeVars, createVars, slotVars, lockVars, procVars
<1>0. /\ ~dead /\ Running /\ ~FUFH_IS_VALID("FUFH_RDONLY")
      /\ NewHandle \in 0..MaxHandles
      /\ fh_id' = [fh_id EXCEPT !["FUFH_RDONLY"] = NewHandle]
      /\ aux_count' = [aux_count EXCEPT !["FUFH_RDONLY"] = 0]
      /\ UNCHANGED <<open_count, nmaps, fd, creating, restashed, opened, lost,
            dead, panic>>
  <2>1. NewHandle \in 1..MaxHandles
    BY NewHandleIsNew DEF fuse_vnop_readdir
  <2>. QED BY <2>1 DEF fuse_vnop_readdir, LocksFree, BigLockFree
<1>1. TypeOK'
  <2>1. fh_id' \in [Types -> 0..MaxHandles] /\ aux_count' \in [Types -> 0..1]
    BY <1>0, TypeNames DEF IInv, TypeOK
  <2>. QED BY <2>1 DEF IInv, TypeOK, fuse_vnop_readdir
<1>2. NoPanic'
  BY DEF IInv, NoPanic, fuse_vnop_readdir, LocksFree, BigLockFree, Running
<1>3. LockInv'
  BY DEF IInv, TypeOK, LockInv, fuse_vnop_readdir, LocksFree, BigLockFree,
    Running
<1>4. NewInv'
  <2>1. aux_count = NoUses => aux_count' = NoUses
    BY <1>0, TypeNames DEF NoUses
  <2>. QED BY <2>1 DEF IInv, NewInv, Fresh, fuse_vnop_readdir
<1>5. HandlesMatch' /\ LostInv'
  <2>1. Valid' = Valid /\ \A z \in Valid : fh_id'[z] = fh_id[z]
    BY <1>0 DEF IInv, TypeOK, Valid, FUFH_IS_VALID
  <2>. QED BY <1>0, <2>1 DEF IInv, HandlesMatch, LostInv
<1>6. CountInv'
  <2>1. \A z \in Types : Users(z)' = Users(z)
    BY <1>0 DEF Users
  <2>2. Counted("FUFH_RDONLY") => Counted("FUFH_RDONLY")'
    BY <1>0, <2>1, TypeNames DEF Counted, FUFH_IS_VALID
  <2>. QED BY <1>0, <2>1, <2>2, TypeNames, Count_One DEF IInv, TypeOK
<1>7. MapInv'
  BY DEF IInv, TypeOK, MapInv, fuse_vnop_readdir, LocksFree, BigLockFree,
    Running
<1>. QED BY <1>1, <1>2, <1>3, <1>4, <1>5, <1>6, <1>7 DEF IInv

\* Pages are read.
LEMMA PageIn_Inv ==
    ASSUME IInv, PageIn
    PROVE  IInv'
<1>. USE FileAssumption DEF nodeVars, createVars, slotVars, lockVars, procVars
<1>1. CASE GetSucceeds("FUFH_RDONLY", 1, "get") /\ ~FUFH_IS_VALID("FUFH_RDONLY")
  <2>0. PICK y \in Types :
          /\ y = "FUFH_RDONLY" /\ ~dead /\ HasHandle
          /\ opened' = opened \union {NewHandle}
          /\ fh_id' = [fh_id EXCEPT ![y] = NewHandle]
          /\ open_count' = [open_count EXCEPT ![y] = 1]
          /\ aux_count' = [aux_count EXCEPT ![y] = 1]
          /\ fh_id' \in [Types -> 0..MaxHandles]
          /\ open_count' \in [Types -> 0..MaxUses]
          /\ aux_count' \in [Types -> 0..1]
          /\ lost \subseteq opened' /\ opened' \subseteq 1..MaxHandles
          /\ panic' = panic /\ ~FUFH_IS_VALID(y) /\ Running /\ ~creating
          /\ UNCHANGED <<lost, creating, restashed, dead, nmaps, fd, pc, type,
                map>>
    <3>1. PICK y \in Types : y = "FUFH_RDONLY"
      BY TypeNames
    <3>2. /\ ~creating /\ Running
          /\ UNCHANGED <<lost, creating, restashed, dead, nmaps, fd, pc, type,
                map>>
      BY DEF PageIn, Strategy, BigLockFree
    <3>. QED BY <1>1, <3>1, <3>2, Get_Slot DEF IInv
  <2>1. TypeOK'
    <3>1. dirty' \in BOOLEAN
      BY DEF IInv, TypeOK, PageIn
    <3>. QED BY <2>0, <3>1 DEF IInv, TypeOK, PageIn, Strategy
  <2>2. NoPanic'
    BY <1>1 DEF IInv, NoPanic, PageIn, Strategy, GetSucceeds, AuxAfterGet,
      BigLockFree, Running
  <2>3. LockInv'
    BY <1>1 DEF IInv, TypeOK, LockInv, PageIn, Strategy, GetSucceeds,
      AuxAfterGet, BigLockFree, Running
  <2>4. NewInv'
    BY <1>1 DEF IInv, TypeOK, NewInv, Fresh, PageIn, Strategy, GetSucceeds,
      AuxAfterGet, BigLockFree, Running
  <2>5. HandlesMatch' /\ LostInv'
    <3>1. HandlesMatch' /\ LostInv'
      BY <2>0, Handles_Get DEF IInv
    <3>. QED BY <3>1
  <2>6. CountInv'
    <3>1. \A z \in Types : Users(z)' = Users(z) /\ Users(z) \in Nat
      BY <2>0, Users_Nat DEF Users
    <3>2. Counted(y) => Counted(y)'
      BY <2>0, <3>1 DEF IInv, TypeOK, Counted, FUFH_IS_VALID
    <3>. QED BY <2>0, <3>1, <3>2, Count_One DEF IInv, TypeOK
  <2>7. MapInv'
    <3>1. nmaps["FUFH_RDONLY"] <= open_count["FUFH_RDONLY"]
      BY <2>0 DEF IInv, MapInv
    <3>2. nmaps'["FUFH_RDONLY"] <= open_count'["FUFH_RDONLY"]
      BY <2>0, <3>1, TypeNames DEF IInv, TypeOK, FUFH_IS_VALID
    <3>. QED BY <2>0, <3>2 DEF IInv, MapInv
  <2>. QED BY <2>1, <2>2, <2>3, <2>4, <2>5, <2>6, <2>7 DEF IInv
<1>2. CASE UNCHANGED <<slotVars, opened, panic>>
  <2>1. TypeOK'
    BY <1>2 DEF IInv, TypeOK, PageIn, Strategy, BigLockFree, Running
  <2>2. NoPanic'
    BY <1>2 DEF IInv, NoPanic, PageIn, Strategy, BigLockFree, Running
  <2>3. LockInv'
    BY <1>2 DEF IInv, TypeOK, LockInv, PageIn, Strategy, BigLockFree, Running
  <2>4. NewInv'
    BY <1>2 DEF IInv, TypeOK, NewInv, Fresh, PageIn, Strategy, BigLockFree,
      Running
  <2>5. HandlesMatch' /\ LostInv'
    BY <1>2, Handles_Same DEF IInv, PageIn, Strategy, BigLockFree, Running
  <2>6. CountInv'
    BY <1>2, Count_Same DEF IInv, Running, PageIn, Strategy, BigLockFree
  <2>7. MapInv'
    BY <1>2 DEF IInv, TypeOK, MapInv, PageIn, Strategy, BigLockFree, Running
  <2>. QED BY <2>1, <2>2, <2>3, <2>4, <2>5, <2>6, <2>7 DEF IInv
<1>. QED BY <1>1, <1>2 DEF PageIn, Strategy

\* Pages are written.
LEMMA PageOut_Inv ==
    ASSUME IInv, PageOut
    PROVE  IInv'
<1>. USE FileAssumption DEF nodeVars, createVars, slotVars, lockVars, procVars
<1>1. CASE GetSucceeds("FUFH_RDWR", 1, "get") /\ ~FUFH_IS_VALID("FUFH_RDWR")
  <2>0. PICK y \in Types :
          /\ y = "FUFH_RDWR" /\ ~dead /\ HasHandle
          /\ opened' = opened \union {NewHandle}
          /\ fh_id' = [fh_id EXCEPT ![y] = NewHandle]
          /\ open_count' = [open_count EXCEPT ![y] = 1]
          /\ aux_count' = [aux_count EXCEPT ![y] = 1]
          /\ fh_id' \in [Types -> 0..MaxHandles]
          /\ open_count' \in [Types -> 0..MaxUses]
          /\ aux_count' \in [Types -> 0..1]
          /\ lost \subseteq opened' /\ opened' \subseteq 1..MaxHandles
          /\ panic' = panic /\ ~FUFH_IS_VALID(y) /\ Running /\ ~creating
          /\ UNCHANGED <<lost, creating, restashed, dead, nmaps, fd, pc, type,
                map>>
    <3>1. PICK y \in Types : y = "FUFH_RDWR"
      BY TypeNames
    <3>2. /\ ~creating /\ Running
          /\ UNCHANGED <<lost, creating, restashed, dead, nmaps, fd, pc, type,
                map>>
      BY DEF PageOut, Strategy, BigLockFree
    <3>. QED BY <1>1, <3>1, <3>2, Get_Slot DEF IInv
  <2>1. TypeOK'
    <3>1. dirty' \in BOOLEAN
      BY DEF IInv, TypeOK, PageOut
    <3>. QED BY <2>0, <3>1 DEF IInv, TypeOK, PageOut, Strategy
  <2>2. NoPanic'
    BY <1>1 DEF IInv, NoPanic, PageOut, Strategy, GetSucceeds, AuxAfterGet,
      BigLockFree, Running
  <2>3. LockInv'
    BY <1>1 DEF IInv, TypeOK, LockInv, PageOut, Strategy, GetSucceeds,
      AuxAfterGet, BigLockFree, Running
  <2>4. NewInv'
    BY <1>1 DEF IInv, TypeOK, NewInv, Fresh, PageOut, Strategy, GetSucceeds,
      AuxAfterGet, BigLockFree, Running
  <2>5. HandlesMatch' /\ LostInv'
    <3>1. HandlesMatch' /\ LostInv'
      BY <2>0, Handles_Get DEF IInv
    <3>. QED BY <3>1
  <2>6. CountInv'
    <3>1. \A z \in Types : Users(z)' = Users(z) /\ Users(z) \in Nat
      BY <2>0, Users_Nat DEF Users
    <3>2. Counted(y) => Counted(y)'
      BY <2>0, <3>1 DEF IInv, TypeOK, Counted, FUFH_IS_VALID
    <3>. QED BY <2>0, <3>1, <3>2, Count_One DEF IInv, TypeOK
  <2>7. MapInv'
    <3>1. nmaps["FUFH_RDONLY"] <= open_count["FUFH_RDONLY"]
      BY <2>0 DEF IInv, MapInv
    <3>2. nmaps'["FUFH_RDONLY"] <= open_count'["FUFH_RDONLY"]
      BY <2>0, <3>1, TypeNames DEF IInv, TypeOK, FUFH_IS_VALID
    <3>. QED BY <2>0, <3>2 DEF IInv, MapInv
  <2>. QED BY <2>1, <2>2, <2>3, <2>4, <2>5, <2>6, <2>7 DEF IInv
<1>2. CASE UNCHANGED <<slotVars, opened, panic>>
  <2>1. TypeOK'
    BY <1>2 DEF IInv, TypeOK, PageOut, Strategy, BigLockFree, Running
  <2>2. NoPanic'
    BY <1>2 DEF IInv, NoPanic, PageOut, Strategy, BigLockFree, Running
  <2>3. LockInv'
    BY <1>2 DEF IInv, TypeOK, LockInv, PageOut, Strategy, BigLockFree, Running
  <2>4. NewInv'
    BY <1>2 DEF IInv, TypeOK, NewInv, Fresh, PageOut, Strategy, BigLockFree,
      Running
  <2>5. HandlesMatch' /\ LostInv'
    BY <1>2, Handles_Same DEF IInv, PageOut, Strategy, BigLockFree, Running
  <2>6. CountInv'
    BY <1>2, Count_Same DEF IInv, Running, PageOut, Strategy, BigLockFree
  <2>7. MapInv'
    BY <1>2 DEF IInv, TypeOK, MapInv, PageOut, Strategy, BigLockFree, Running
  <2>. QED BY <2>1, <2>2, <2>3, <2>4, <2>5, <2>6, <2>7 DEF IInv
<1>. QED BY <1>1, <1>2 DEF PageOut, Strategy

\* All handles are put.
LEMMA fuse_vnop_inactive_Inv ==
    ASSUME IInv, fuse_vnop_inactive
    PROVE  IInv'
<1>. USE FileAssumption DEF nodeVars, createVars, slotVars, lockVars, procVars
<1>0. /\ open_count' = NoUses /\ nmaps' = NoUses /\ panic' = panic
      /\ opened' = (IF dead THEN opened ELSE opened \ {fh_id[y] : y \in Valid})
      /\ Valid' = {} /\ UNCHANGED <<lost, dead, fd, pc>>
      /\ lost' \subseteq opened' /\ HandlesMatch' /\ LostInv'
      /\ \A t \in Threads : pc[t] = "user" /\ fd[t] = None /\ map[t] = None
  <2>1. /\ InactivePuts = Valid /\ UNCHANGED <<lost, dead, fd, pc>>
        /\ nmaps' = NoUses /\ Unused
    BY DEF InactivePuts, Valid, fuse_vnop_inactive
  <2>2. PICK cs : cs = NoUses
          /\ cs = [y \in Types |-> IF y \in InactivePuts THEN 0 ELSE open_count[y]]
    <3>1. \A y \in Types : open_count[y] \in Nat 
                              /\ (y \notin InactivePuts => open_count[y] = 0)
      BY DEF IInv, TypeOK, InactivePuts, FUFH_IS_VALID
    <3>. QED BY <3>1 DEF NoUses
  <2>3. PutAll(Valid, cs)
    BY <2>1, <2>2 DEF fuse_vnop_inactive
  <2>4. /\ open_count' = NoUses /\ panic' = panic
        /\ opened' = (IF dead THEN opened ELSE opened \ {fh_id[y] : y \in Valid})
    BY <2>2, <2>3 DEF PutAll, NoUses, Valid
  <2>5. Valid' = {}
    BY <2>4 DEF Valid, FUFH_IS_VALID, NoUses
  <2>6. lost' \subseteq opened' /\ HandlesMatch' /\ LostInv'
    <3>1. CASE dead
      BY <2>1, <2>4, <3>1 DEF IInv, TypeOK, HandlesMatch, LostInv
    <3>2. CASE ~dead
      BY <2>1, <2>4, <2>5, <3>2, Handles_Put DEF IInv
    <3>. QED BY <3>1, <3>2
  <2>. QED BY <2>1, <2>4, <2>5, <2>6 DEF Unused
<1>1. TypeOK'
  <2>1. /\ open_count' \in [Types -> 0..MaxUses]
        /\ nmaps' \in [Types -> 0..MaxUses]
    BY <1>0 DEF IInv, TypeOK, NoUses
  <2>2. opened' \subseteq 1..MaxHandles
    BY <1>0 DEF IInv, TypeOK
  <2>3. /\ UNCHANGED <<nodeVars, createVars, fh_id, aux_count, lockVars, pc,
                       type, fd, map, dirty, dead>>
        /\ used' = FALSE
    BY DEF fuse_vnop_inactive
  <2>4. /\ lost' \subseteq opened' /\ opened' \subseteq 1..MaxHandles
        /\ panic' = panic
    BY <1>0, <2>2
  <2>5. used' \in BOOLEAN
    BY <2>3
  <2>6. panic' \in {"no", "get", "put", "mmap_raced", "mmap_dead"}
    BY <2>4 DEF IInv, TypeOK
  <2>7. /\ UNCHANGED <<nodeVars, createVars, fh_id, aux_count, lockVars, pc,
                       type, fd, map, dirty, dead>>
    BY <2>3
  <2>. QED BY <2>1, <2>4, <2>5, <2>6, <2>7 DEF IInv, TypeOK
<1>2. NoPanic'
  BY <1>0 DEF IInv, NoPanic, fuse_vnop_inactive, Unused, LocksFree,
    BigLockFree, Running
<1>3. LockInv'
  BY DEF IInv, TypeOK, LockInv, fuse_vnop_inactive, Unused, LocksFree,
    BigLockFree, Running
<1>4. NewInv'
  BY DEF IInv, TypeOK, NewInv, Fresh, fuse_vnop_inactive, Unused, LocksFree,
    BigLockFree, Running
<1>5. HandlesMatch' /\ LostInv'
  BY <1>0 DEF IInv, fuse_vnop_inactive, Unused, LocksFree, BigLockFree, Running
<1>6. CountInv'
  <2>1. ASSUME NEW y \in Types
        PROVE  Users(y)' = 0 /\ nmaps'[y] = 0 /\ open_count'[y] = 0
    <3>1. Users(y) = 0 /\ Users(y)' = Users(y)
      BY <1>0, Users_None DEF Users
    <3>. QED BY <1>0, <3>1 DEF NoUses
  <2>. QED BY <2>1 DEF CountInv, Counted, FUFH_IS_VALID
<1>7. MapInv'
  <2>1. nmaps'["FUFH_RDONLY"] <= open_count'["FUFH_RDONLY"]
    BY <1>0, TypeNames DEF NoUses
  <2>2. \A u \in Threads : pc'[u] = "user"
    BY <1>0
  <2>. QED BY <2>1, <2>2 DEF MapInv
<1>. QED BY <1>1, <1>2, <1>3, <1>4, <1>5, <1>6, <1>7 DEF IInv

\* The vnode goes.
LEMMA fuse_vnop_reclaim_Inv ==
    ASSUME IInv, fuse_vnop_reclaim
    PROVE  IInv'
<1>. USE FileAssumption DEF nodeVars, createVars, slotVars, lockVars, procVars
<1>0. /\ open_count' = NoUses /\ nmaps' = NoUses /\ panic' = panic
      /\ opened' = (IF dead THEN opened ELSE opened \ {fh_id[y] : y \in Valid})
      /\ Valid' = {} /\ UNCHANGED <<lost, dead, fd, pc>>
      /\ lost' \subseteq opened' /\ HandlesMatch' /\ LostInv'
      /\ \A t \in Threads : pc[t] = "user" /\ fd[t] = None /\ map[t] = None
  <2>1. /\ InactivePuts = Valid /\ UNCHANGED <<lost, dead, fd, pc>>
        /\ nmaps' = NoUses /\ Unused
    BY DEF InactivePuts, Valid, fuse_vnop_reclaim
  <2>2. PICK cs : cs = NoUses /\ cs = NoUses
    <3>1. \A y \in Types : open_count[y] \in Nat 
                              /\ (y \notin InactivePuts => open_count[y] = 0)
      BY DEF IInv, TypeOK, InactivePuts, FUFH_IS_VALID
    <3>. QED BY <3>1 DEF NoUses
  <2>3. PutAll(Valid, cs)
    BY <2>1, <2>2 DEF fuse_vnop_reclaim
  <2>4. /\ open_count' = NoUses /\ panic' = panic
        /\ opened' = (IF dead THEN opened ELSE opened \ {fh_id[y] : y \in Valid})
    BY <2>2, <2>3 DEF PutAll, NoUses, Valid
  <2>5. Valid' = {}
    BY <2>4 DEF Valid, FUFH_IS_VALID, NoUses
  <2>6. lost' \subseteq opened' /\ HandlesMatch' /\ LostInv'
    <3>1. CASE dead
      BY <2>1, <2>4, <3>1 DEF IInv, TypeOK, HandlesMatch, LostInv
    <3>2. CASE ~dead
      BY <2>1, <2>4, <2>5, <3>2, Handles_Put DEF IInv
    <3>. QED BY <3>1, <3>2
  <2>. QED BY <2>1, <2>4, <2>5, <2>6 DEF Unused
<1>1. TypeOK'
  <2>1. /\ open_count' \in [Types -> 0..MaxUses]
        /\ nmaps' \in [Types -> 0..MaxUses]
    BY <1>0 DEF IInv, TypeOK, NoUses
  <2>2. opened' \subseteq 1..MaxHandles
    BY <1>0 DEF IInv, TypeOK
  <2>3. fh_id' \in [Types -> 0..MaxHandles] /\ aux_count' \in [Types -> 0..1]
    BY DEF IInv, TypeOK, NoUses, fuse_vnop_reclaim
  <2>. QED BY <1>0, <2>1, <2>2, <2>3 DEF IInv, TypeOK, fuse_vnop_reclaim
<1>2. NoPanic'
  BY <1>0 DEF IInv, NoPanic, fuse_vnop_reclaim, Unused, BigLockFree, Running
<1>3. LockInv'
  BY DEF IInv, TypeOK, LockInv, fuse_vnop_reclaim, Unused, BigLockFree, Running
<1>4. NewInv'
  <2>1. Fresh'
    BY <1>0 DEF fuse_vnop_reclaim, Unused, Fresh
  <2>. QED BY <1>0, <2>1 DEF NewInv, fuse_vnop_reclaim
<1>5. HandlesMatch' /\ LostInv'
  BY <1>0 DEF IInv, fuse_vnop_reclaim, Unused, BigLockFree, Running
<1>6. CountInv'
  <2>1. ASSUME NEW y \in Types
        PROVE  Users(y)' = 0 /\ nmaps'[y] = 0 /\ open_count'[y] = 0
    <3>1. Users(y) = 0 /\ Users(y)' = Users(y)
      BY <1>0, Users_None DEF Users
    <3>. QED BY <1>0, <3>1 DEF NoUses
  <2>. QED BY <2>1 DEF CountInv, Counted, FUFH_IS_VALID
<1>7. MapInv'
  <2>1. nmaps'["FUFH_RDONLY"] <= open_count'["FUFH_RDONLY"]
    BY <1>0, TypeNames DEF NoUses
  <2>2. \A u \in Threads : pc'[u] = "user"
    BY <1>0
  <2>. QED BY <2>1, <2>2 DEF MapInv
<1>. QED BY <1>1, <1>2, <1>3, <1>4, <1>5, <1>6, <1>7 DEF IInv

\* The daemon goes.
LEMMA Die_Inv ==
    ASSUME IInv, Die
    PROVE  IInv'
<1>. USE FileAssumption DEF nodeVars, createVars, slotVars, lockVars, procVars
<1>1. TypeOK'
  BY DEF IInv, TypeOK, Die, Running
<1>2. NoPanic'
  BY DEF IInv, NoPanic, Die, Running
<1>3. LockInv'
  BY DEF IInv, TypeOK, LockInv, Die, Running
<1>4. NewInv'
  BY DEF IInv, TypeOK, NewInv, Fresh, Die, Running
<1>5. HandlesMatch' /\ LostInv'
  BY Handles_Same DEF IInv, Die, Running
<1>6. CountInv'
  BY Count_Same DEF IInv, Running, Die
<1>7. MapInv'
  BY DEF IInv, TypeOK, MapInv, Die, Running
<1>. QED BY <1>1, <1>2, <1>3, <1>4, <1>5, <1>6, <1>7 DEF IInv
\* Every step.
LEMMA Next_Inv == IInv /\ [Next]_vars => IInv'
<1>. SUFFICES ASSUME IInv, [Next]_vars PROVE IInv'
  OBVIOUS
<1>1. CASE UNCHANGED vars
  <2>1. TypeOK' /\ NoPanic' /\ LockInv' /\ NewInv' /\ MapInv'
    BY <1>1 DEF IInv, TypeOK, NoPanic, LockInv, NewInv, Fresh, MapInv, Running,
        vars,
      nodeVars, createVars, slotVars, lockVars, procVars
  <2>2. HandlesMatch' /\ LostInv'
    BY <1>1, Handles_Same DEF IInv, vars, createVars, slotVars
  <2>3. CountInv'
    BY <1>1, Count_Same DEF IInv, Running, vars, createVars, slotVars, procVars
  <2>. QED BY <2>1, <2>2, <2>3 DEF IInv
<1>2. CASE \E t \in Threads : Step(t)
  BY <1>2, fuse_vnop_create_Inv, CreateOtherwise_Inv, CreatorLeaves_Inv,
    ContenderGoesOn_Inv, MmapGets_Inv, MmapRetries_Inv, WriteEnds_Inv DEF Step
<1>3. CASE \E t \in Threads :
              \/ LookupMisses(t) \/ fuse_vnop_open(t) \/ fuse_vnop_close(t)
              \/ fuse_vnop_mmap(t) \/ MmapOnDead(t) \/ fuse_vnop_mnomap(t)
              \/ Store(t) \/ fuse_vnop_write(t) \/ fuse_vnop_readdir(t)
  BY <1>3, LookupMisses_Inv, fuse_vnop_open_Inv, fuse_vnop_close_Inv,
    fuse_vnop_mmap_Inv, MmapOnDead_Inv, fuse_vnop_mnomap_Inv, Store_Inv,
    fuse_vnop_write_Inv, fuse_vnop_readdir_Inv
<1>4. CASE PageIn \/ PageOut \/ fuse_vnop_inactive \/ fuse_vnop_reclaim \/ Die
  BY <1>4, PageIn_Inv, PageOut_Inv, fuse_vnop_inactive_Inv,
    fuse_vnop_reclaim_Inv, Die_Inv
<1>. QED BY <1>1, <1>2, <1>3, <1>4 DEF Next

-----------------------------------------------------------------------------
\* The inductive invariant holds in every reachable state.
THEOREM Invariance == Spec => []IInv
<1>. QED BY Init_Inv, Next_Inv, PTL DEF Spec

\* Every variable keeps its type; no count leaves its bound.
THEOREM TypeCorrect == Spec => []TypeOK
<1>1. IInv => TypeOK BY DEF IInv
<1>. QED BY <1>1, Invariance, PTL

\* The assertions of fuse_filehandle_get and fuse_filehandle_put never fail in a
\* call made with the lock under which the slot was tested.
THEOREM AssertionsHold == Spec => []NoPanic
<1>1. IInv => NoPanic BY DEF IInv
<1>. QED BY <1>1, Invariance, PTL

\* The daemon has open exactly the handles in the valid slots, each in one slot,
\* and those a second create has written over.
THEOREM HandlesAreTheSlots == Spec => []HandlesMatch
<1>1. IInv => HandlesMatch BY DEF IInv
<1>. QED BY <1>1, Invariance, PTL

\* The count of a slot is the number of its descriptors, its mappings, the page
\* traffic's use and create's stash, for any number of processes.
THEOREM CountsMatch == Spec => []CountsAddUp
<1>1. IInv => CountsAddUp
  <2>. SUFFICES ASSUME IInv, Running, ~dead, ~restashed
                PROVE  /\ \A y \in Types : Counted(y)
                       /\ creating => /\ \A t \in Threads : fd[t] = None /\ map[t] = None
                                      /\ ~dirty /\ Valid \subseteq {"FUFH_RDWR"}
    BY DEF CountsAddUp, Counted
  <2>1. \A y \in Types : Counted(y)
    BY DEF IInv, CountInv
  <2>2. ASSUME creating
        PROVE  /\ \A t \in Threads : fd[t] = None /\ map[t] = None
               /\ ~dirty /\ Valid \subseteq {"FUFH_RDWR"}
    BY <2>2 DEF IInv, NewInv, Fresh, Valid, FUFH_IS_VALID, NoUses
  <2>. QED BY <2>1, <2>2
<1>. QED BY <1>1, Invariance, PTL

\* A process that waits for the creator of a file sleeps with the locks that the
\* creator needs: the file stays in creation and the waiter leaves without it.
THEOREM ContenderWaitsInVain == Spec => ContenderIsStuck
<1>1. ASSUME IInv, Next, NEW t \in Threads, pc[t] = "contender"
      PROVE  creating' /\ (pc'[t] # "contender" => fd'[t] = None)
  <2>1. biglock = t /\ nodelock = t /\ biglock # None /\ creating
        /\ fd[t] = None
    BY <1>1, FileAssumption DEF IInv, LockInv, NewInv, Fresh
  <2>. USE DEF nodeVars, createVars, slotVars, lockVars, procVars
  <2>2. CASE \E u \in Threads : fuse_vnop_open(u) \/ fuse_vnop_close(u)
    BY <2>1, <2>2 DEF fuse_vnop_open, fuse_vnop_close, LocksFree, BigLockFree
  <2>3. CASE \E u \in Threads : ContenderGoesOn(u)
    <3>1. PICK u \in Threads : ContenderGoesOn(u) BY <2>3
    <3>2. pc[u] = "contender" BY <1>1, <3>1 DEF ContenderGoesOn, IInv, LockInv
    <3>3. OpenFails(u) /\ UNCHANGED createVars
      BY <3>1, <3>2 DEF ContenderGoesOn
    <3>. QED BY <2>1, <3>3 DEF OpenFails
  <2>4. CASE \E u \in Threads :
                \/ fuse_vnop_create(u) \/ CreateOtherwise(u) \/ MmapGets(u)
                \/ MmapRetries(u) \/ WriteEnds(u) \/ LookupMisses(u)
    BY <2>1, <2>4 DEF fuse_vnop_create, CreateOtherwise, MmapGets, MmapRetries,
      WriteEnds, LookupMisses, BigLockFree
  <2>5. CASE \E u \in Threads :
                \/ CreatorLeaves(u) \/ fuse_vnop_mmap(u) \/ MmapOnDead(u)
                \/ fuse_vnop_mnomap(u) \/ Store(u) \/ fuse_vnop_write(u)
                \/ fuse_vnop_readdir(u)
    BY <2>1, <2>5 DEF CreatorLeaves, fuse_vnop_mmap, MmapOnDead,
      fuse_vnop_mnomap, Store, fuse_vnop_write, fuse_vnop_readdir, LocksFree,
      BigLockFree
  <2>6. CASE PageIn \/ PageOut \/ fuse_vnop_inactive \/ fuse_vnop_reclaim \/ Die
    BY <2>1, <2>6 DEF PageIn, PageOut, Strategy, fuse_vnop_inactive,
      fuse_vnop_reclaim, Die, LocksFree, BigLockFree
  <2>. QED BY <1>1, <2>2, <2>3, <2>4, <2>5, <2>6 DEF Next, Step
<1>2. IInv /\ [Next]_vars =>
        [\A t \in Threads : pc[t] = "contender" =>
            /\ creating'
            /\ pc'[t] # "contender" => fd'[t] = None]_vars
  BY <1>1
<1>. QED BY <1>2, Invariance, PTL DEF Spec, ContenderIsStuck
=============================================================================
