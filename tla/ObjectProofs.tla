---------------------------- MODULE ObjectProofs ----------------------------
(***************************************************************************)
(* Proofs about ObjectTable, for every mudlib (whatever Compile, Inherited *)
(* and Slots answer), every number of objects and every depth of nested    *)
(* loads.  That variables fit the program after replace_program() holds    *)
(* for every compiler that lays out inherited variables in place.          *)
(***************************************************************************)
EXTENDS ObjectTable, WellFoundedInduction, TLAPS

Fields == {"file", "program", "vars", "clone", "virtual", "gone", "armed", "uid", "euid", "late"}
Ops == {"uids", "owner", "create", "clone", "virtual", "reload", "seteuid"}
FrameSet == [op : Ops, who : Objects, ob : Objects, by : Objects \cup {NoObject},
             arg : Files \cup Names \cup {"create", "clone"}]

(* Frames speak of the n objects that have been made, and keep a file  *)
(* name or a user id according to what they wait for.                        *)
FrameOK(frame, n) ==
    /\ frame \in FrameSet
    /\ frame.who \in 1 .. n /\ frame.ob \in 1 .. n /\ frame.by \in 0 .. n
    /\ frame.op \in {"create", "virtual"} => frame.arg \in Files
    /\ frame.op = "owner" => frame.arg \in {"create", "clone"}
    /\ frame.op = "seteuid" => frame.arg \in Names

Shape ==
    /\ DOMAIN obj = Objects
    /\ \A o \in Objects : DOMAIN obj[o] = Fields /\ obj[o].file \in Files

Types ==
    /\ made \in 0 .. MaxObjects
    /\ loaded \in [Files -> 0 .. made]
    /\ master \in 0 .. made
    /\ Shape
    /\ frames \in Seq(FrameSet)
    /\ \A i \in DOMAIN frames : FrameOK(frames[i], made)

(* What an action leaves on the stack: no more than was there and one frame. *)
Stacked(frame) ==
    \/ frames' = frames
    \/ frames' = <<>>
    \/ frames # <<>> /\ frames' = Rest
    \/ frames' = Append(frames, frame)
    \/ frames # <<>> /\ frames' = Append(Rest, frame)
    \/ frames' = <<frame>>

LEMMA TopOfStack ==
    ASSUME Types, frames # <<>>
    PROVE  /\ Len(frames) \in DOMAIN frames /\ FrameOK(Top, made)
           /\ Rest \in Seq(FrameSet) /\ DOMAIN Rest = 1 .. (Len(frames) - 1)
           /\ \A i \in DOMAIN Rest : i \in DOMAIN frames /\ Rest[i] = frames[i]
BY DEF Types, Top, Rest

LEMMA StackTyped ==
    ASSUME Types, made' \in made .. MaxObjects, NEW frame, FrameOK(frame, made'), Stacked(frame)
    PROVE  frames' \in Seq(FrameSet) /\ \A i \in DOMAIN frames' : FrameOK(frames'[i], made')
<1>1. made \in Nat /\ made' \in Nat /\ made <= made'
  BY ObjectTableAssumption DEF Types
<1>2. \A g : FrameOK(g, made) => FrameOK(g, made')
  BY <1>1 DEF FrameOK
<1>3. frame \in FrameSet
  BY DEF FrameOK
<1>4. CASE frames' = frames
  BY <1>2, <1>4 DEF Types
<1>5. CASE frames' = <<>>
  BY <1>5
<1>6. CASE frames # <<>> /\ frames' = Rest
  BY <1>6, <1>2, TopOfStack DEF Types
<1>7. CASE frames' = Append(frames, frame)
  BY <1>7, <1>2, <1>3 DEF Types
<1>8. CASE frames # <<>> /\ frames' = Append(Rest, frame)
  <2>1. frames' \in Seq(FrameSet) /\ DOMAIN frames' = 1 .. Len(frames)
    BY <1>8, <1>3, TopOfStack DEF Types
  <2>2. ASSUME NEW i \in DOMAIN frames' PROVE FrameOK(frames'[i], made')
    BY <2>1, <1>8, <1>2, <1>3, TopOfStack DEF Types
  <2> QED
    BY <2>1, <2>2
<1>9. CASE frames' = <<frame>>
  BY <1>9, <1>3
<1> QED
  BY <1>4, <1>5, <1>6, <1>7, <1>8, <1>9 DEF Stacked

(* The rest of the types when the stack and the objects are right. *)
LEMMA TypesFrom ==
    ASSUME Types, made' \in made .. MaxObjects, loaded' \in [Files -> 0 .. made'], master' \in 0 .. made',
           Shape', NEW frame, FrameOK(frame, made'), Stacked(frame)
    PROVE  Types'
<1>1. made' \in 0 .. MaxObjects
  BY ObjectTableAssumption DEF Types
<1> QED
  BY <1>1, StackTyped DEF Types

(* The same when no frame is new. *)
LEMMA TypesPopped ==
    ASSUME Types, made' = made, loaded' \in [Files -> 0 .. made], master' \in 0 .. made, Shape',
           \/ frames' = frames \/ frames' = <<>> \/ (frames # <<>> /\ frames' = Rest)
    PROVE  Types'
<1>1. \A g : FrameOK(g, made) => FrameOK(g, made')
  OBVIOUS
<1>2. frames' \in Seq(FrameSet) /\ \A i \in DOMAIN frames' : FrameOK(frames'[i], made')
  <2>1. CASE frames' = frames
    BY <1>1, <2>1 DEF Types
  <2>2. CASE frames' = <<>>
    BY <2>2
  <2>3. CASE frames # <<>> /\ frames' = Rest
    <3>1. Rest \in Seq(FrameSet) /\ \A i \in DOMAIN Rest : i \in DOMAIN frames /\ Rest[i] = frames[i]
      BY <2>3, TopOfStack
    <3> QED
      BY <1>1, <2>3, <3>1 DEF Types
  <2> QED
    BY <2>1, <2>2, <2>3
<1> QED
  BY <1>2 DEF Types

(* An object is replaced by something of the same shape. *)
LEMMA ShapeFrom ==
    ASSUME Shape, NEW o \in Objects, NEW r, DOMAIN r = Fields, r.file \in Files,
           obj' = [obj EXCEPT ![o] = r]
    PROVE  Shape'
BY DEF Shape

(* A new object, made known to nobody yet. *)
NewObject(o, f) ==
    /\ DOMAIN obj' = Objects /\ DOMAIN obj'[o] = Fields
    /\ obj'[o].file = f /\ obj'[o].euid = NoName /\ ~obj'[o].gone /\ ~obj'[o].virtual
    /\ \A x \in Objects \ {o} : obj'[x] = obj[x]

LEMMA NewObjectMade ==
    ASSUME Shape, NEW o \in Objects, NEW f \in Files, NEW program,
           \/ obj' = Constructed(o, f, program)
           \/ obj' = [Constructed(o, f, program) EXCEPT ![o].clone = (master = NoObject)]
    PROVE  NewObject(o, f) /\ Shape'
<1>1. DOMAIN obj' = Objects /\ \A x \in Objects \ {o} : obj'[x] = obj[x]
  BY DEF Shape, Constructed
<1>2. CASE obj' = Constructed(o, f, program)
  <2>1. obj'[o] = [Unmade EXCEPT !.file = f, !.program = program, !.vars = Slots(program)]
    BY <1>2 DEF Shape, Constructed
  <2>2. DOMAIN obj'[o] = Fields
    BY <2>1 DEF Unmade, Fields
  <2>3. obj'[o].file = f /\ obj'[o].euid = NoName
    BY <2>1 DEF Unmade
  <2>4. ~obj'[o].gone /\ ~obj'[o].virtual
    BY <2>1 DEF Unmade
  <2> QED
    BY <1>1, <2>2, <2>3, <2>4 DEF NewObject, Shape
<1>3. CASE obj' = [Constructed(o, f, program) EXCEPT ![o].clone = (master = NoObject)]
  <2>1. obj'[o] = [[Unmade EXCEPT !.file = f, !.program = program, !.vars = Slots(program)]
                    EXCEPT !.clone = (master = NoObject)]
    BY <1>3 DEF Shape, Constructed
  <2>2. DOMAIN obj'[o] = Fields
    BY <2>1 DEF Unmade, Fields
  <2>3. obj'[o].file = f /\ obj'[o].euid = NoName
    BY <2>1 DEF Unmade
  <2>4. ~obj'[o].gone /\ ~obj'[o].virtual
    BY <2>1 DEF Unmade
  <2> QED
    BY <1>1, <2>2, <2>3, <2>4 DEF NewObject, Shape
<1> QED
  BY <1>2, <1>3

(* The frame a new object starts with. *)
LEMMA BornFrame ==
    ASSUME Types, made < MaxObjects, NEW f \in Files, NEW loader \in 0 .. made,
           NEW op \in {"create", "clone"}
    PROVE  \E frame : /\ FrameOK(frame, made + 1)
                      /\ Born(op, made + 1, f, loader) = Append(frames, frame)
                      /\ frame.ob = made + 1
                      /\ \/ frame.op = op /\ frame.arg = f
                         \/ frame.op = "owner" /\ frame.arg = op
<1>1. made \in Nat /\ made + 1 \in Objects /\ loader \in Objects \cup {NoObject}
  BY ObjectTableAssumption DEF Types, Objects, NoObject
<1>2. CASE master = NoObject
  <2>1. FrameOK(Frame(op, made + 1, made + 1, loader, f), made + 1)
    BY <1>1 DEF FrameOK, FrameSet, Frame, Ops
  <2> QED
    BY <1>2, <2>1 DEF Born, Push, Frame
<1>3. CASE master # NoObject
  <2>1. master \in 1 .. made /\ master \in Objects
    BY <1>1, <1>3, ObjectTableAssumption DEF Types, NoObject, Objects
  <2>2. FrameOK(Frame("owner", master, made + 1, loader, op), made + 1)
    BY <1>1, <2>1 DEF FrameOK, FrameSet, Frame, Ops
  <2> QED
    BY <1>3, <2>2 DEF Born, Push, Frame
<1> QED
  BY <1>2, <1>3

(* LPC code and the objects it names have been made. *)
LEMMA WhoIsMade ==
    ASSUME Types
    PROVE  /\ Current \subseteq 1 .. made /\ Live \subseteq 1 .. made /\ 1 .. made \subseteq Objects
           /\ NoObject \in 0 .. made /\ 0 .. made \subseteq Objects \cup {NoObject}
<1>1. made \in Nat /\ made <= MaxObjects /\ MaxObjects \in Nat
  BY ObjectTableAssumption DEF Types
<1>2. Live \subseteq 1 .. made /\ 1 .. made \subseteq Objects
  BY <1>1 DEF Live, Objects
<1>3. Current \subseteq 1 .. made
  BY <1>2, TopOfStack DEF Current, FrameOK
<1> QED
  BY <1>1, <1>2, <1>3 DEF NoObject, Objects

LEMMA LoadTypes ==
    ASSUME Types, NEW f \in Files, NEW loader \in 0 .. made, LoadFromSource(f, loader), UNCHANGED master
    PROVE  Types'
<1> DEFINE program == Compile(f, Disk, cache).program
<1>1. /\ made < MaxObjects /\ made' = made + 1 /\ obj' = Constructed(made + 1, f, program)
      /\ loaded' = [loaded EXCEPT ![f] = made + 1] /\ frames' = Born("create", made + 1, f, loader)
  BY DEF LoadFromSource
<1>2. made + 1 \in Objects /\ made' \in made .. MaxObjects /\ made \in Nat
  BY <1>1, ObjectTableAssumption DEF Types, Objects
<1>3. Shape'
  BY <1>1, <1>2, NewObjectMade DEF Types
<1>4. loaded' \in [Files -> 0 .. made'] /\ master' \in 0 .. made'
  BY <1>1, <1>2 DEF Types
<1>5. PICK frame : FrameOK(frame, made + 1) /\ Born("create", made + 1, f, loader) = Append(frames, frame)
  BY <1>1, BornFrame
<1> QED
  BY <1>1, <1>2, <1>3, <1>4, <1>5, TypesFrom DEF Stacked

LEMMA CloneTypes ==
    ASSUME Types, NEW f \in Files, NEW who \in 1 .. made, CloneObject(who, f)
    PROVE  Types'
<1> DEFINE program == Compile(f, Disk, cache).program
<1>1. UNCHANGED <<loaded, master>>
  BY DEF CloneObject, booted
<1>2. CASE UNCHANGED <<made, obj, frames>>
  BY <1>1, <1>2, TypesPopped DEF Types, Shape
<1>3. CASE /\ made < MaxObjects /\ made' = made + 1
           /\ obj' = [Constructed(made + 1, f, program) EXCEPT ![made + 1].clone = (master = NoObject)]
           /\ frames' = Born("clone", made + 1, f, who)
  <2>1. made + 1 \in Objects /\ made' \in made .. MaxObjects /\ made \in Nat
    BY <1>3, ObjectTableAssumption DEF Types, Objects
  <2>2. Shape'
    BY <1>3, <2>1, NewObjectMade DEF Types
  <2>3. loaded' \in [Files -> 0 .. made'] /\ master' \in 0 .. made'
    BY <1>1, <1>3, <2>1 DEF Types
  <2>4. PICK frame : FrameOK(frame, made + 1) /\ Born("clone", made + 1, f, who) = Append(frames, frame)
    BY <1>3, BornFrame
  <2> QED
    BY <1>3, <2>1, <2>2, <2>3, <2>4, TypesFrom DEF Stacked
<1> QED
  BY <1>2, <1>3 DEF CloneObject

(* A driver call ends: frames are popped, or the master is asked for the   *)
(* user ids.                                                               *)
LEMMA BootedTypes ==
    ASSUME Types, NEW result \in 0 .. made, Booted(result), made' = made, Shape',
           loaded' \in [Files -> 0 .. made]
    PROVE  Types'
<1>1. CASE frames' = <<>> /\ UNCHANGED master
  BY <1>1, TypesPopped DEF Types
<1>2. CASE /\ result # NoObject /\ master' = result
           /\ frames' = <<Frame("uids", result, result, NoObject, MasterFile)>>
  <2>1. result \in 1 .. made /\ result \in Objects /\ made' \in made .. MaxObjects /\ NoObject \in 0 .. made
    BY <1>2, WhoIsMade, ObjectTableAssumption DEF Types, NoObject
  <2>2. FrameOK(Frame("uids", result, result, NoObject, MasterFile), made')
    BY <2>1, ObjectTableAssumption DEF FrameOK, FrameSet, Frame, Ops
  <2> QED
    BY <1>2, <2>1, <2>2, TypesFrom DEF Stacked
<1> QED
  BY <1>1, <1>2 DEF Booted

LEMMA ReturnTypes ==
    ASSUME Types, frames # <<>>, NEW result \in 0 .. made, Return(result), made' = made, Shape',
           loaded' \in [Files -> 0 .. made]
    PROVE  Types'
<1>1. CASE Booted(result)
  BY <1>1, BootedTypes
<1>2. CASE frames' = Rest /\ UNCHANGED booted
  BY <1>2, TypesPopped DEF Types, booted
<1> QED
  BY <1>1, <1>2 DEF Return

(* What a name finds depends on these fields. *)
SameObjects ==
    /\ DOMAIN obj' = DOMAIN obj
    /\ \A x \in Objects : /\ DOMAIN obj'[x] = DOMAIN obj[x] /\ obj'[x].file = obj[x].file
                          /\ obj'[x].gone = obj[x].gone /\ obj'[x].virtual = obj[x].virtual
                          /\ obj'[x].armed = obj[x].armed /\ obj'[x].late = obj[x].late

LEMMA OnlyIdsAssigned ==
    ASSUME Shape, NEW creator, AssignObjectUid(creator)
    PROVE  SameObjects
<1> DEFINE o == Top.ob
           loader == IF Top.by = NoObject THEN [uid |-> rootUid, euid |-> rootUid] ELSE obj[Top.by]
           given == IF rootUid = NoName THEN [uid |-> NoName, euid |-> NoName]
                    ELSE IF creator = NoName THEN [uid |-> rootUid, euid |-> NoName]
                    ELSE ResolveObjectUids(creator, loader.uid, loader.euid)
           c == Top.arg = "clone"
<1>1. obj' = [obj EXCEPT ![o].uid = given.uid, ![o].euid = given.euid, ![o].clone = c]
  BY DEF AssignObjectUid
<1> HIDE DEF given, c, o
<1> QED
  BY <1>1 DEF SameObjects, Shape, Fields

(* The actions that only change fields of objects and the stack. *)
LEMMA MastersAnswersTypes ==
    ASSUME Types,
           \/ \E root \in Names \cup {NoName} : CaptureBootUids(root)
           \/ \E creator \in Names \cup {NoName} : AssignObjectUid(creator)
           \/ EuidGranted \/ EuidDenied
    PROVE  Types'
<1>1. frames # <<>> /\ FrameOK(Top, made)
  BY TopOfStack DEF CaptureBootUids, AssignObjectUid, EuidGranted, EuidDenied, In
<1>2. CASE \E root \in Names \cup {NoName} : CaptureBootUids(root)
  <2>1. Shape'
    BY <1>2 DEF Types, Shape, Fields, CaptureBootUids
  <2> QED
    BY <1>1, <1>2, <2>1, TypesPopped DEF CaptureBootUids, Types, table
<1>3. CASE \E creator \in Names \cup {NoName} : AssignObjectUid(creator)
  <2> DEFINE o == Top.ob
             frame == Frame(Top.arg, o, o, Top.by, obj[o].file)
  <2>1. UNCHANGED <<made, loaded, master>> /\ Top.op = "owner" /\ frames' = Append(Rest, frame)
    BY <1>3 DEF AssignObjectUid, table, booted, In
  <2>2. Shape'
    BY <1>3, OnlyIdsAssigned DEF Types, Shape, SameObjects
  <2>3. FrameOK(frame, made)
    BY <1>1, <2>1, WhoIsMade DEF FrameOK, FrameSet, Frame, Ops, Types, Shape
  <2>4. made \in made .. MaxObjects
    BY ObjectTableAssumption DEF Types
  <2> HIDE DEF frame
  <2>5. Stacked(frame)
    BY <1>1, <2>1 DEF Stacked
  <2> QED
    BY <2>1, <2>2, <2>3, <2>4, <2>5, TypesFrom DEF Types
<1>4. CASE EuidGranted \/ EuidDenied
  <2>1. Shape'
    <3>1. CASE EuidGranted
      BY <3>1, Zenon DEF Types, Shape, Fields, EuidGranted
    <3>2. CASE EuidDenied
      BY <3>2 DEF Types, Shape, EuidDenied
    <3> QED
      BY <1>4, <3>1, <3>2
  <2> QED
    BY <1>1, <1>4, <2>1, TypesPopped DEF EuidGranted, EuidDenied, Types, table, booted
<1> QED
  BY <1>2, <1>3, <1>4

LEMMA DriverTypes ==
    ASSUME Types, BootLoad \/ CreateReturns \/ CreateThrows \/ ReloadEnds \/ VirtualRefused
                  \/ ProcessPendingReplacePrograms
    PROVE  Types'
<1>1. CASE BootLoad
  <2> DEFINE f == IF boot = "simul" THEN SimulFile ELSE MasterFile
  <2>1. f \in Files /\ NoObject \in 0 .. made
    BY WhoIsMade, ObjectTableAssumption
  <2>2. CASE LoadFromSource(f, NoObject) /\ UNCHANGED booted
    BY <2>1, <2>2, LoadTypes DEF booted
  <2>3. CASE LoadRefused(f) /\ Booted(NoObject)
    BY <2>1, <2>3, BootedTypes DEF LoadRefused, Types, Shape
  <2>4. CASE Booted(loaded[f]) /\ UNCHANGED <<table, obj>>
    BY <2>1, <2>4, BootedTypes DEF Types, Shape, table
  <2> QED
    BY <1>1, <2>2, <2>3, <2>4 DEF BootLoad
<1>2. CASE CreateReturns \/ CreateThrows
  <2>1. frames # <<>> /\ FrameOK(Top, made) /\ Top.ob \in 0 .. made /\ NoObject \in 0 .. made
    BY <1>2, TopOfStack, WhoIsMade DEF CreateReturns, CreateThrows, In, FrameOK, Types
  <2>2. Shape'
    BY <1>2 DEF CreateReturns, CreateThrows, Armed, Types, Shape, Fields
  <2>3. loaded' \in [Files -> 0 .. made] /\ made' = made
    BY <1>2, <2>1 DEF CreateReturns, CreateThrows, Types, table
  <2> QED
    BY <1>2, <2>1, <2>2, <2>3, ReturnTypes DEF CreateReturns, CreateThrows
<1>3. CASE ReloadEnds
  <2>1. Shape'
    BY <1>3 DEF ReloadEnds, Armed, Types, Shape, Fields
  <2> QED
    BY <1>3, <2>1, TypesPopped DEF ReloadEnds, In, Types, table, booted
<1>4. CASE VirtualRefused
  BY <1>4, ReturnTypes, WhoIsMade DEF VirtualRefused, In, Types, table, Shape
<1>5. CASE ProcessPendingReplacePrograms
  <2>1. Shape'
    BY <1>5 DEF ProcessPendingReplacePrograms, Types, Shape, Fields
  <2> QED
    BY <1>5, <2>1, TypesPopped DEF ProcessPendingReplacePrograms, Types, table, booted
<1> QED
  BY <1>1, <1>2, <1>3, <1>4, <1>5

LEMMA LpcTypes ==
    ASSUME Types, NEW who \in Current,
           \/ \E f \in Loadable : LoadObject(who, f) \/ LoadVirtual(who, f) \/ CloneObject(who, f)
           \/ \E f \in Files : ReplaceProgram(who, f)
           \/ \E name \in Names : AskEuid(who, name) \/ TakeEuid(who, name)
           \/ DropEuid(who)
           \/ \E o \in Live : ExportUid(who, o)
    PROVE  Types'
<1>1. who \in 1 .. made /\ who \in 0 .. made /\ who \in Objects /\ Loadable \subseteq Files
      /\ made \in made .. MaxObjects
  BY WhoIsMade, ObjectTableAssumption DEF Types
<1>2. master # NoObject => master \in 1 .. made /\ master \in Objects
  BY WhoIsMade DEF Types, NoObject
<1>3. ASSUME NEW f \in Loadable, LoadObject(who, f) \/ LoadVirtual(who, f) \/ CloneObject(who, f)
      PROVE  Types'
  <2>1. CASE LoadObject(who, f) /\ LoadFromSource(f, who)
    BY <1>1, <2>1, LoadTypes DEF LoadObject, booted
  <2>2. CASE LoadObject(who, f) /\ LoadRefused(f) /\ UNCHANGED frames
    BY <2>2, TypesPopped DEF LoadObject, LoadRefused, Types, Shape, booted
  <2>3. CASE LoadVirtual(who, f)
    <3>1. FrameOK(Frame("virtual", master, master, who, f), made) /\ Shape'
      BY <1>1, <1>2, <1>3, <2>3 DEF LoadVirtual, FrameOK, FrameSet, Frame, Ops, Types, Shape
    <3> QED
      BY <1>1, <2>3, <3>1, TypesFrom DEF LoadVirtual, Push, Stacked, Types, table, booted
  <2>4. CASE CloneObject(who, f)
    BY <1>1, <2>4, CloneTypes
  <2> QED
    BY <1>3, <2>1, <2>2, <2>3, <2>4 DEF LoadObject
<1>4. ASSUME NEW f \in Files, ReplaceProgram(who, f) PROVE Types'
  BY <1>4, TypesPopped DEF ReplaceProgram, Types, Shape, table, booted
<1>5. ASSUME NEW name \in Names, AskEuid(who, name) PROVE Types'
  <2>1. FrameOK(Frame("seteuid", master, who, who, name), made) /\ Shape'
    BY <1>1, <1>2, <1>5 DEF AskEuid, FrameOK, FrameSet, Frame, Ops, Types, Shape
  <2> QED
    BY <1>1, <1>5, <2>1, TypesFrom DEF AskEuid, Push, Stacked, Types, table, booted
<1>6. CASE (\E name \in Names : TakeEuid(who, name)) \/ DropEuid(who) \/ \E o \in Live : ExportUid(who, o)
  <2>1. Shape'
    <3>1. CASE \E name \in Names : TakeEuid(who, name)
      BY <3>1 DEF TakeEuid, Types, Shape, Fields
    <3>2. CASE DropEuid(who)
      BY <3>2 DEF DropEuid, Types, Shape, Fields
    <3>3. CASE \E o \in Live : ExportUid(who, o)
      BY <3>3 DEF ExportUid, Types, Shape, Fields
    <3> QED
      BY <1>6, <3>1, <3>2, <3>3
  <2> QED
    BY <1>6, <2>1, TypesPopped DEF TakeEuid, DropEuid, ExportUid, Types, table, booted
<1> QED
  BY <1>3, <1>4, <1>5, <1>6

LEMMA LiveTypes ==
    ASSUME Types, NEW o \in 1 .. made, VirtualLoaded(o) \/ DestructObject(o) \/ ReloadObject(o)
    PROVE  Types'
<1>1. o \in 1 .. made /\ o \in 0 .. made /\ o \in Objects /\ made \in made .. MaxObjects
      /\ NoObject \in 0 .. made /\ NoObject \in Objects \cup {NoObject}
  BY WhoIsMade, ObjectTableAssumption DEF Types
<1>2. CASE VirtualLoaded(o)
  <2>1. frames # <<>> /\ Top.arg \in Files
    BY <1>2, TopOfStack DEF VirtualLoaded, In, FrameOK
  <2>2. Shape' /\ loaded' \in [Files -> 0 .. made]
    BY <1>1, <1>2, <2>1 DEF VirtualLoaded, Types, Shape, Fields
  <2> QED
    BY <1>1, <1>2, <2>1, <2>2, ReturnTypes DEF VirtualLoaded
<1>3. CASE DestructObject(o)
  <2>1. Shape' /\ loaded' \in [Files -> 0 .. made]
    BY <1>1, <1>3 DEF DestructObject, Types, Shape, Fields
  <2> QED
    BY <1>3, <2>1, TypesPopped DEF DestructObject, Types, booted
<1>4. CASE ReloadObject(o)
  <2>1. FrameOK(Frame("reload", o, o, NoObject, obj[o].file), made) /\ Shape'
    BY <1>1, <1>4 DEF ReloadObject, FrameOK, FrameSet, Frame, Ops, Types, Shape
  <2> QED
    BY <1>1, <1>4, <2>1, TypesFrom DEF ReloadObject, Push, Stacked, Types, table, booted
<1> QED
  BY <1>2, <1>3, <1>4

LEMMA TypesStep ==
    ASSUME Types, [Next]_vars
    PROVE  Types'
<1>1. CASE \E f \in Files : Rewrite(f)
  BY <1>1, TypesPopped DEF Rewrite, Types, Shape, table, booted
<1>2. CASE UNCHANGED vars
  BY <1>2, TypesPopped DEF vars, Types, Shape
<1> QED
  BY <1>1, <1>2, MastersAnswersTypes, DriverTypes, LpcTypes, LiveTypes, WhoIsMade DEF Next

LEMMA TypesInit == Init => Types
<1>1. Init => Shape
  BY ObjectTableAssumption DEF Init, Shape, Unmade, Fields
<1> QED
  BY <1>1, ObjectTableAssumption DEF Init, Types, NoObject

-----------------------------------------------------------------------------
(* User ids *)

Approved == approved \cup {NoName}
Ids ==
    /\ Types
    /\ rootUid \in Approved
    /\ \A o \in Objects : obj[o].euid \in Approved

(* A step after which every effective id is one of before, none, or one    *)
(* that was just approved.                                                 *)
LEMMA IdsFrom ==
    ASSUME Ids, Types', approved \subseteq approved', rootUid' \in Approved',
           \A o \in Objects : obj'[o].euid \in Approved' \cup {obj[o].euid}
    PROVE  Ids'
BY DEF Ids, Approved

LEMMA IdsBorn ==
    ASSUME Ids, NEW f \in Files, NEW program, made < MaxObjects,
           \/ obj' = Constructed(made + 1, f, program)
           \/ obj' = [Constructed(made + 1, f, program) EXCEPT ![made + 1].clone = (master = NoObject)]
    PROVE  \A o \in Objects : obj'[o].euid \in {NoName, obj[o].euid}
<1>1. made + 1 \in Objects /\ Shape
  BY ObjectTableAssumption DEF Ids, Types, Objects
<1>2. NewObject(made + 1, f)
  BY <1>1, NewObjectMade
<1> QED
  BY <1>2 DEF NewObject

(* The ids a new object gets are the loader's, or none. *)
LEMMA IdsGiven ==
    ASSUME Ids, NEW creator, AssignObjectUid(creator)
    PROVE  \A o \in Objects : obj'[o].euid \in Approved \cup {obj[o].euid}
<1> DEFINE o == Top.ob
           loader == IF Top.by = NoObject THEN [uid |-> rootUid, euid |-> rootUid] ELSE obj[Top.by]
           given == IF rootUid = NoName THEN [uid |-> NoName, euid |-> NoName]
                    ELSE IF creator = NoName THEN [uid |-> rootUid, euid |-> NoName]
                    ELSE ResolveObjectUids(creator, loader.uid, loader.euid)
           c == Top.arg = "clone"
<1>1. FrameOK(Top, made) /\ 1 .. made \subseteq Objects
  BY TopOfStack, WhoIsMade DEF AssignObjectUid, In, Ids
<1>2. Top.by # NoObject => Top.by \in Objects
  BY <1>1 DEF FrameOK, FrameSet
<1>3. loader.euid \in Approved
  BY <1>2 DEF Ids
<1>4. ASSUME NEW uid, NEW euid \in Approved
      PROVE  ResolveObjectUids(creator, uid, euid).euid \in Approved
  BY <1>4 DEF ResolveObjectUids, Approved
<1>5. given.euid \in Approved
  <2> HIDE DEF loader
  <2>1. ResolveObjectUids(creator, loader.uid, loader.euid).euid \in Approved
    BY <1>3, <1>4
  <2> QED
    BY <2>1 DEF Approved
<1>6. obj' = [obj EXCEPT ![o].uid = given.uid, ![o].euid = given.euid, ![o].clone = c]
  BY DEF AssignObjectUid
<1> HIDE DEF given, c
<1> QED
  BY <1>5, <1>6 DEF Ids, Types, Shape, Fields

LEMMA IdsStep ==
    ASSUME Ids, [Next]_vars
    PROVE  Ids'
<1>1. /\ Types' /\ Shape /\ 1 .. made \subseteq Objects /\ Live \subseteq 1 .. made
      /\ Loadable \subseteq Files /\ {MasterFile, SimulFile} \subseteq Files
  BY TypesStep, WhoIsMade, ObjectTableAssumption DEF Ids, Types
<1> DEFINE Kept0 == approved' = approved /\ rootUid' = rootUid
<1>2. CASE BootLoad
  <2>1. Kept0
    BY <1>2 DEF BootLoad, Booted, booted
  <2>2. CASE UNCHANGED obj
    BY <1>1, <2>1, <2>2, IdsFrom DEF Ids, Approved
  <2>3. CASE \E f \in Files : LoadFromSource(f, NoObject)
    BY <1>1, <2>1, <2>3, IdsBorn, IdsFrom DEF Ids, Approved, LoadFromSource
  <2> QED
    BY <1>1, <1>2, <2>2, <2>3 DEF BootLoad, LoadRefused
<1>3. ASSUME NEW root \in Names \cup {NoName}, CaptureBootUids(root) PROVE Ids'
  <2>1. approved' = (IF root = NoName THEN approved ELSE approved \cup {root}) /\ rootUid' = root
    BY <1>3 DEF CaptureBootUids
  <2>2. \A o \in Objects : obj'[o].euid \in {root, obj[o].euid}
    BY <1>1, <1>3 DEF CaptureBootUids, Shape, Fields
  <2> QED
    BY <1>1, <2>1, <2>2, IdsFrom DEF Ids, Approved
<1>4. ASSUME NEW creator, AssignObjectUid(creator) PROVE Ids'
  <2>1. Kept0
    BY <1>4 DEF AssignObjectUid, booted
  <2> QED
    BY <1>1, <1>4, <2>1, IdsGiven, IdsFrom DEF Ids, Approved
<1>5. CASE CreateReturns \/ ReloadEnds
  <2>1. Kept0
    BY <1>5 DEF CreateReturns, ReloadEnds, Return, Booted, booted
  <2>2. \A o \in Objects : obj'[o].euid = obj[o].euid
    BY <1>1, <1>5 DEF CreateReturns, ReloadEnds, Armed, Shape, Fields
  <2> QED
    BY <1>1, <2>1, <2>2, IdsFrom DEF Ids, Approved
<1>6. CASE CreateThrows \/ VirtualRefused \/ EuidDenied \/ \E f \in Files : Rewrite(f)
  <2>1. Kept0 /\ obj' = obj
    BY <1>6 DEF CreateThrows, VirtualRefused, EuidDenied, Rewrite, Return, Booted, booted
  <2> QED
    BY <1>1, <2>1, IdsFrom DEF Ids, Approved
<1>7. ASSUME NEW o \in 1 .. made, VirtualLoaded(o) \/ DestructObject(o) \/ ReloadObject(o) PROVE Ids'
  <2>1. Kept0
    BY <1>7 DEF VirtualLoaded, DestructObject, ReloadObject, Return, Booted, booted
  <2>2. \A x \in Objects : obj'[x].euid = obj[x].euid
    BY <1>1, <1>7 DEF VirtualLoaded, DestructObject, ReloadObject, Shape, Fields
  <2> QED
    BY <1>1, <2>1, <2>2, IdsFrom DEF Ids, Approved
<1>8. ASSUME NEW who \in Current, NEW f \in Loadable, LoadObject(who, f) \/ LoadVirtual(who, f) \/ CloneObject(who, f)
      PROVE  Ids'
  <2>1. Kept0
    BY <1>8 DEF LoadObject, LoadVirtual, CloneObject, booted
  <2>2. CASE UNCHANGED obj
    BY <1>1, <2>1, <2>2, IdsFrom DEF Ids, Approved
  <2>3. CASE /\ made < MaxObjects
             /\ \/ LoadFromSource(f, who)
                \/ obj' = [Constructed(made + 1, f, Compile(f, Disk, cache).program)
                             EXCEPT ![made + 1].clone = (master = NoObject)]
    BY <1>1, <2>1, <2>3, IdsBorn, IdsFrom DEF Ids, Approved, LoadFromSource
  <2> QED
    BY <1>8, <2>2, <2>3 DEF LoadObject, LoadRefused, LoadFromSource, LoadVirtual, CloneObject
<1>9. ASSUME NEW who \in Current, (\E f \in Files : ReplaceProgram(who, f)) \/ \E name \in Names : AskEuid(who, name)
      PROVE  Ids'
  <2>1. Kept0 /\ obj' = obj
    BY <1>9 DEF ReplaceProgram, AskEuid, booted
  <2> QED
    BY <1>1, <2>1, IdsFrom DEF Ids, Approved
<1>10. ASSUME NEW who \in Current, NEW name \in Names, TakeEuid(who, name) PROVE Ids'
  BY <1>1, <1>10, IdsFrom DEF TakeEuid, booted, Ids, Approved, Shape, Fields
<1>11. ASSUME NEW who \in Current, DropEuid(who) \/ \E o \in Live : ExportUid(who, o) PROVE Ids'
  BY <1>1, <1>11, IdsFrom DEF DropEuid, ExportUid, booted, Ids, Approved, Shape, Fields
<1>12. CASE EuidGranted
  BY <1>1, <1>12, IdsFrom DEF EuidGranted, booted, Ids, Approved, Shape, Fields
<1>13. CASE ProcessPendingReplacePrograms
  <2>1. Kept0
    BY <1>13 DEF ProcessPendingReplacePrograms, booted
  <2>2. \A o \in Objects : obj'[o].euid = obj[o].euid
    BY <1>1, <1>13 DEF ProcessPendingReplacePrograms, Shape, Fields
  <2> QED
    BY <1>1, <2>1, <2>2, IdsFrom DEF Ids, Approved
<1>14. CASE UNCHANGED vars
  BY <1>1, <1>14, IdsFrom DEF vars, Ids, Approved
<1> QED
  BY <1>1, <1>2, <1>3, <1>4, <1>5, <1>6, <1>7, <1>8, <1>9, <1>10, <1>11, <1>12, <1>13, <1>14 DEF Next

(* No object ever acts under a user id that the master did not let anyone  *)
(* have: resolveObjectUids() passes ids on from the loader as it is when   *)
(* creator_file() answers, and whatever ran in the meantime (seteuid(),    *)
(* export_uid(), destruct()) makes none up.                                *)
THEOREM EuidsTheorem == Spec => []EuidsApproved
<1>1. Init => Ids
  BY TypesInit DEF Init, Ids, Approved, Unmade
<1>2. Ids /\ [Next]_vars => Ids'
  BY IdsStep
<1>3. Ids => EuidsApproved
  BY WhoIsMade DEF Ids, Approved, EuidsApproved
<1> QED
  BY <1>1, <1>2, <1>3, PTL DEF Spec

-----------------------------------------------------------------------------
(* What a name finds *)

Alive == Types /\ FoundIsAlive

(* Names are at most forgotten, and objects keep name and life. *)
LEMMA AliveFrom ==
    ASSUME Alive, Types',
           \A f \in Files : loaded'[f] \in {NoObject, loaded[f]},
           \A x \in Objects : /\ obj'[x].file = obj[x].file /\ obj'[x].gone = obj[x].gone
                             /\ obj'[x].late = obj[x].late
    PROVE  Alive'
<1>1. \A f \in Files : loaded[f] # NoObject => loaded[f] \in Objects
  BY WhoIsMade DEF Alive, Types
<1> QED
  BY <1>1 DEF Alive, FoundIsAlive

(* A new object is found, if at all, under the name it was made for. *)
LEMMA AliveBorn ==
    ASSUME Alive, Types', NEW f \in Files, NewObject(made + 1, f), made + 1 \in Objects,
           \A x \in Files : loaded'[x] = loaded[x] \/ (x = f /\ loaded'[x] = made + 1)
    PROVE  Alive'
<1>1. \A x \in Files : loaded[x] # NoObject => loaded[x] \in Objects /\ loaded[x] # made + 1
  BY WhoIsMade DEF Alive, Types
<1> QED
  BY <1>1 DEF Alive, FoundIsAlive, NewObject

(* The two ways an object is made. *)
LEMMA AliveLoaded ==
    ASSUME Alive, Types', NEW f \in Files, NEW loader, LoadFromSource(f, loader)
    PROVE  Alive'
<1>1. made + 1 \in Objects /\ Shape /\ DOMAIN loaded = Files
  BY ObjectTableAssumption DEF Alive, Types, Objects, LoadFromSource
<1>2. NewObject(made + 1, f)
  <2> DEFINE program == Compile(f, Disk, cache).program
  <2>1. obj' = Constructed(made + 1, f, program)
    BY DEF LoadFromSource
  <2> QED
    BY <1>1, <2>1, NewObjectMade
<1>3. \A x \in Files : loaded'[x] = loaded[x] \/ (x = f /\ loaded'[x] = made + 1)
  BY <1>1 DEF LoadFromSource
<1> QED
  BY <1>1, <1>2, <1>3, AliveBorn

LEMMA AliveCloned ==
    ASSUME Alive, Types', NEW f \in Files, NEW who, CloneObject(who, f)
    PROVE  Alive'
<1>1. CASE UNCHANGED obj
  BY <1>1, AliveFrom DEF CloneObject
<1>2. CASE ~UNCHANGED obj
  <2>1. made + 1 \in Objects /\ Shape
    BY <1>2, ObjectTableAssumption DEF Alive, Types, Objects, CloneObject
  <2>2. NewObject(made + 1, f)
    <3> DEFINE program == Compile(f, Disk, cache).program
    <3>1. obj' = [Constructed(made + 1, f, program) EXCEPT ![made + 1].clone = (master = NoObject)]
      BY <1>2 DEF CloneObject
    <3> QED
      BY <2>1, <3>1, NewObjectMade
  <2> QED
    BY <2>1, <2>2, AliveBorn DEF CloneObject
<1> QED
  BY <1>1, <1>2

LEMMA AliveStep ==
    ASSUME Alive, [Next]_vars
    PROVE  Alive'
<1>1. /\ Types' /\ Shape /\ 1 .. made \subseteq Objects /\ Live \subseteq Objects
      /\ Loadable \subseteq Files /\ {MasterFile, SimulFile} \subseteq Files
      /\ loaded \in [Files -> 0 .. made]
  BY TypesStep, WhoIsMade, ObjectTableAssumption DEF Alive, Types, Live
<1>2. CASE BootLoad
  <2>1. CASE UNCHANGED <<obj, loaded>>
    BY <1>1, <2>1, AliveFrom
  <2>2. CASE \E f \in Files : LoadFromSource(f, NoObject)
    BY <1>1, <2>2, AliveLoaded
  <2> QED
    BY <1>1, <1>2, <2>1, <2>2 DEF BootLoad, LoadRefused, table
<1>3. ASSUME NEW root, CaptureBootUids(root) PROVE Alive'
  BY <1>1, <1>3, AliveFrom DEF CaptureBootUids, Shape, Fields, table
<1>4. ASSUME NEW creator, AssignObjectUid(creator) PROVE Alive'
  <2>1. SameObjects /\ loaded' = loaded
    BY <1>1, <1>4, OnlyIdsAssigned DEF AssignObjectUid, table
  <2> QED
    BY <1>1, <2>1, AliveFrom DEF SameObjects
<1>5. CASE CreateReturns \/ ReloadEnds
  <2>1. obj' = Armed(Top.ob) /\ loaded' = loaded
    BY <1>5 DEF CreateReturns, ReloadEnds, table
  <2>2. \A x \in Objects : /\ obj'[x].file = obj[x].file /\ obj'[x].gone = obj[x].gone
                          /\ obj'[x].late = obj[x].late
    BY <1>1, <2>1 DEF Armed, Shape, Fields
  <2> QED
    BY <1>1, <2>1, <2>2, AliveFrom
<1>6. CASE CreateThrows
  BY <1>1, <1>6, AliveFrom DEF CreateThrows
<1>7. CASE \/ VirtualRefused \/ EuidDenied \/ \E f \in Files : Rewrite(f)
           \/ \E o \in Live : ReloadObject(o)
           \/ \E who \in Current, f \in Loadable : LoadVirtual(who, f)
           \/ \E who \in Current : (\E f \in Files : ReplaceProgram(who, f)) \/ \E name \in Names : AskEuid(who, name)
           \/ UNCHANGED vars
  <2>1. UNCHANGED <<obj, loaded>>
    BY <1>7 DEF VirtualRefused, EuidDenied, Rewrite, ReloadObject, LoadVirtual, ReplaceProgram, AskEuid, vars, table
  <2> QED
    BY <1>1, <2>1, AliveFrom
<1>8. ASSUME NEW o \in Live, DestructObject(o) PROVE Alive'
  <2>1. \A f \in Files : loaded'[f] = IF f = obj[o].file THEN NoObject ELSE loaded[f]
    BY <1>1, <1>8 DEF DestructObject
  <2>2. \A x \in Objects : obj'[x].file = obj[x].file /\ (x # o => obj'[x] = obj[x])
    BY <1>1, <1>8 DEF DestructObject, Shape, Fields
  <2>3. \A f \in Files : loaded[f] # NoObject => loaded[f] \in Objects
    BY <1>1 DEF NoObject
  <2> QED
    BY <1>1, <2>1, <2>2, <2>3 DEF Alive, FoundIsAlive
<1>9. ASSUME NEW o \in 1 .. made, VirtualLoaded(o) PROVE Alive'
  <2>1. Top.arg \in Files
    BY <1>9, TopOfStack DEF VirtualLoaded, In, FrameOK, Alive
  <2>2. \A f \in Files : loaded'[f] = IF f = Top.arg THEN o ELSE loaded[f]
    BY <1>1, <1>9, <2>1 DEF VirtualLoaded
  <2>3. /\ obj'[o].file = Top.arg /\ obj'[o].gone = obj[o].gone
        /\ obj'[o].late = (obj[o].late \/ obj[o].gone)
        /\ \A x \in Objects : x # o => obj'[x] = obj[x]
    BY <1>1, <1>9 DEF VirtualLoaded, Shape, Fields
  <2>4. \A f \in Files : loaded[f] # NoObject => loaded[f] \in Objects
    BY <1>1 DEF NoObject
  <2> QED
    <3>1. ASSUME NEW f \in Files, f # Top.arg, loaded'[f] # NoObject, obj'[loaded'[f]].file = f,
                 obj'[loaded'[f]].gone
          PROVE  obj'[loaded'[f]].late
      <4>1. loaded'[f] = loaded[f] /\ loaded[f] # o
        BY <2>2, <2>3, <3>1
      <4>2. obj'[loaded[f]] = obj[loaded[f]]
        BY <2>3, <2>4, <3>1, <4>1
      <4> QED
        BY <3>1, <4>1, <4>2 DEF Alive, FoundIsAlive
    <3>2. obj'[o].gone => obj'[o].late
      BY <2>3
    <3>3. FoundIsAlive'
      BY <2>1, <2>2, <3>1, <3>2 DEF FoundIsAlive
    <3> QED
      BY <1>1, <3>3 DEF Alive
<1>10. ASSUME NEW who \in Current, NEW f \in Loadable, LoadObject(who, f) \/ CloneObject(who, f)
       PROVE  Alive'
  <2>1. CASE UNCHANGED <<obj, loaded>>
    BY <1>1, <2>1, AliveFrom
  <2>2. CASE LoadFromSource(f, who)
    BY <1>1, <2>2, AliveLoaded
  <2>3. CASE CloneObject(who, f)
    BY <1>1, <2>3, AliveCloned
  <2> QED
    BY <1>10, <2>1, <2>2, <2>3 DEF LoadObject, LoadRefused
<1>11. CASE \/ \E who \in Current : \/ DropEuid(who) \/ \E name \in Names : TakeEuid(who, name)
                                    \/ \E o \in Live : ExportUid(who, o)
            \/ EuidGranted
  BY <1>1, <1>11, AliveFrom DEF DropEuid, TakeEuid, ExportUid, EuidGranted, Shape, Fields, table
<1>12. CASE ProcessPendingReplacePrograms
  BY <1>1, <1>12, AliveFrom DEF ProcessPendingReplacePrograms, Shape, Fields, table
<1> QED
  BY <1>2, <1>3, <1>4, <1>5, <1>6, <1>7, <1>8, <1>9, <1>10, <1>11, <1>12 DEF Next

(* A name finds a destructed object of that name only if compile_object()  *)
(* handed it over destructed, however destructObject(), the rebinding in   *)
(* loadVirtualObject() and the error path of loadObject() interleave       *)
(* through create() and the master's applies.                              *)
THEOREM FoundAliveTheorem == Spec => []FoundIsAlive
<1>1. Init => Alive
  BY TypesInit DEF Init, Alive, FoundIsAlive
<1>2. Alive /\ [Next]_vars => Alive'
  BY AliveStep
<1> QED
  BY <1>1, <1>2, PTL DEF Spec, Alive

-----------------------------------------------------------------------------
(* Objects that are found are complete *)

Making == {"owner", "create"}
Waits(stack, o) == \E i \in DOMAIN stack : stack[i].op \in Making /\ stack[i].ob = o

(* A frame that waits for create() knows the name its object has in the    *)
(* table, and a clone whose owner is being asked for is not in the table;  *)
(* compile_object() may hand over either under another name.               *)
Fits(frame, objects, names) ==
    \/ objects[frame.ob].virtual
    \/ /\ frame.op = "create" => frame.arg = objects[frame.ob].file
       /\ (frame.op = "owner" /\ frame.arg = "clone") => \A f \in Files : names[f] # frame.ob

Named == \A f \in Files : loaded[f] # NoObject =>
    obj[loaded[f]].virtual \/ obj[loaded[f]].file = f
Settled(o, stack) == obj[o].gone \/ obj[o].virtual \/ obj[o].armed \/ Waits(stack, o)

Found ==
    /\ Types
    /\ Named
    /\ \A i \in DOMAIN frames : Fits(frames[i], obj, loaded)
    /\ \A f \in Files : loaded[f] # NoObject => Settled(loaded[f], frames)

(* What happens to the stack when nothing begins or ends being made. *)
LEMMA GrownStack ==
    ASSUME Types, NEW frame \in FrameSet, frames' = frames \/ frames' = Append(frames, frame)
    PROVE  /\ \A i \in DOMAIN frames' : frames'[i] = frame \/ \E j \in DOMAIN frames : frames'[i] = frames[j]
           /\ \A o : Waits(frames, o) => Waits(frames', o)
           /\ frames' # frames => \E i \in DOMAIN frames' : frames'[i] = frame
<1>1. \A i \in DOMAIN frames : i \in DOMAIN frames' /\ frames'[i] = frames[i]
  BY DEF Types
<1>2. \A i \in DOMAIN frames' : frames'[i] = frame \/ \E j \in DOMAIN frames : frames'[i] = frames[j]
  BY DEF Types
<1>3. frames' # frames => \E i \in DOMAIN frames' : frames'[i] = frame
  BY DEF Types
<1> QED
  BY <1>1, <1>2, <1>3 DEF Waits

(* The top frame is gone, and perhaps another one has taken its place. *)
LEMMA PoppedStack ==
    ASSUME Types, frames # <<>>, NEW frame \in FrameSet,
           \/ frames' = Rest
           \/ frames' = Append(Rest, frame)
           \/ Rest = <<>> /\ (frames' = <<>> \/ frames' = <<frame>>)
    PROVE  /\ \A i \in DOMAIN frames' : frames'[i] = frame \/ \E j \in DOMAIN frames : frames'[i] = frames[j]
           /\ \A o : Waits(frames, o) => Waits(frames', o) \/ (Top.op \in Making /\ Top.ob = o)
<1>1. /\ Rest \in Seq(FrameSet) /\ DOMAIN Rest = 1 .. (Len(frames) - 1) /\ Len(frames) \in Nat
      /\ \A i \in DOMAIN Rest : i \in DOMAIN frames /\ Rest[i] = frames[i]
      /\ DOMAIN frames = 1 .. Len(frames)
  BY TopOfStack DEF Types
<1>2. \A i \in DOMAIN frames : i = Len(frames) \/ i \in DOMAIN Rest
  BY <1>1
<1>3. \A i \in DOMAIN Rest : i \in DOMAIN frames' /\ frames'[i] = Rest[i]
  BY <1>1
<1>4. \A i \in DOMAIN frames' : frames'[i] = frame \/ i \in DOMAIN Rest
  BY <1>1
<1>5. \A i \in DOMAIN frames' : frames'[i] = frame \/ \E j \in DOMAIN frames : frames'[i] = frames[j]
  BY <1>1, <1>3, <1>4
<1>6. ASSUME NEW o, Waits(frames, o)
      PROVE  Waits(frames', o) \/ (Top.op \in Making /\ Top.ob = o)
  <2>1. PICK i \in DOMAIN frames : frames[i].op \in Making /\ frames[i].ob = o
    BY <1>6 DEF Waits
  <2> QED
    BY <1>1, <1>2, <1>3, <2>1 DEF Waits, Top
<1> QED
  BY <1>5, <1>6

(* A driver call ends. *)
LEMMA ReturnStack ==
    ASSUME Types, frames # <<>>, NEW result \in 0 .. made, Return(result)
    PROVE  /\ \A i \in DOMAIN frames' : frames'[i].op = "uids" \/ \E j \in DOMAIN frames : frames'[i] = frames[j]
           /\ \A o : Waits(frames, o) => Waits(frames', o) \/ (Top.op \in Making /\ Top.ob = o)
<1>1. PICK o \in Objects : result # NoObject => o = result
  <2>1. 1 \in Objects /\ (result # NoObject => result \in Objects)
    BY WhoIsMade, TopOfStack, ObjectTableAssumption DEF FrameOK, FrameSet, Objects, NoObject, Types
  <2> QED
    BY <2>1
<1> DEFINE frame == Frame("uids", o, o, NoObject, MasterFile)
<1>2. frame \in FrameSet /\ frame.op = "uids"
  BY ObjectTableAssumption DEF Frame, FrameSet, Ops
<1>3. \/ frames' = Rest
      \/ Rest = <<>> /\ (frames' = <<>> \/ frames' = <<frame>>)
  BY <1>1 DEF Return, Booted
<1> HIDE DEF frame
<1> QED
  BY <1>2, <1>3, PoppedStack

(* Objects keep what a name finds them by. *)
Keeping == \A x \in Objects :
    /\ obj'[x].file = obj[x].file /\ obj'[x].virtual = obj[x].virtual
    /\ (obj[x].gone => obj'[x].gone) /\ (obj[x].armed => obj'[x].armed)

(* Names are at most forgotten, objects keep name and life, and no frame    *)
(* that waits for an object that is found is gone before it is armed.       *)
LEMMA FoundFrom ==
    ASSUME Found, Types',
           \A f \in Files : loaded'[f] \in {NoObject, loaded[f]},
           Keeping,
           \A i \in DOMAIN frames' : \/ \E j \in DOMAIN frames : frames'[i] = frames[j]
                                     \/ Fits(frames'[i], obj, loaded),
           \A x \in Objects, f \in Files :
               Waits(frames, x) /\ loaded'[f] = x => Settled(x, frames)'
    PROVE  Found'
<1>1. \A f \in Files : loaded[f] # NoObject => loaded[f] \in Objects
  BY WhoIsMade DEF Found, Types
<1>2. Named'
  BY <1>1 DEF Found, Named, Keeping
<1>3. \A i \in DOMAIN frames' : Fits(frames'[i], obj, loaded) /\ frames'[i].ob \in Objects /\ frames'[i].ob # NoObject
  BY DEF Found, Types, FrameOK, FrameSet, Objects, NoObject
<1>4. \A i \in DOMAIN frames' : Fits(frames'[i], obj', loaded')
  BY <1>3 DEF Fits, Keeping
<1>5. ASSUME NEW f \in Files, loaded'[f] # NoObject PROVE Settled(loaded[f], frames)'
  <2>1. loaded'[f] = loaded[f] /\ loaded[f] \in Objects /\ Settled(loaded[f], frames)
    BY <1>1, <1>5 DEF Found
  <2> QED
    BY <2>1 DEF Settled, Keeping
<1> QED
  BY <1>2, <1>4, <1>5 DEF Found

(* The steps that make, name and forget nothing. *)
LEMMA FoundQuiet ==
    ASSUME Found, Types', UNCHANGED loaded, Keeping, NEW frame \in FrameSet, frame.op \notin Making,
           \/ frames' = frames \/ frames' = Append(frames, frame)
           \/ frames # <<>> /\ Top.op \notin Making /\ frames' = Rest
    PROVE  Found'
<1>1. /\ \A i \in DOMAIN frames' : frames'[i] = frame \/ \E j \in DOMAIN frames : frames'[i] = frames[j]
      /\ \A o : Waits(frames, o) => Waits(frames', o)
  <2>1. CASE frames' = frames \/ frames' = Append(frames, frame)
    BY <2>1, GrownStack DEF Found
  <2>2. CASE frames # <<>> /\ Top.op \notin Making /\ frames' = Rest
    BY <2>2, PoppedStack DEF Found
  <2> QED
    BY <2>1, <2>2
<1>2. Fits(frame, obj, loaded)
  BY DEF Fits, Making
<1>3. \A x \in Objects : Waits(frames, x) => Settled(x, frames)'
  BY <1>1 DEF Settled
<1> QED
  BY <1>1, <1>2, <1>3, FoundFrom

(* A new object: found under the name it was made for while its create()    *)
(* is waited for, or not at all.                                            *)
LEMMA FoundBorn ==
    ASSUME Found, Types', NEW f \in Files, NewObject(made + 1, f), made + 1 \in Objects,
           NEW frame \in FrameSet, frames' = Append(frames, frame), frame.ob = made + 1,
           frame.op = "create" => frame.arg = f,
           \/ loaded' = loaded
           \/ loaded' = [loaded EXCEPT ![f] = made + 1] /\ frame.op \in Making
                /\ ~(frame.op = "owner" /\ frame.arg = "clone")
    PROVE  Found'
<1> USE DEF NoObject
<1>1. \A x \in Files : loaded[x] # NoObject => loaded[x] \in Objects /\ loaded[x] # made + 1
  BY WhoIsMade DEF Found, Types
<1>2. loaded \in [Files -> 0 .. made] /\ made \in Nat
  BY ObjectTableAssumption DEF Found, Types
<1>3. \A x \in Files : \/ loaded'[x] = loaded[x]
                       \/ x = f /\ loaded'[x] = made + 1 /\ frame.op \in Making
                            /\ ~(frame.op = "owner" /\ frame.arg = "clone")
  BY <1>2
<1>4. \A i \in DOMAIN frames : frames[i].ob \in Objects /\ frames[i].ob # made + 1
  BY <1>2 DEF Found, Types, FrameOK, FrameSet
<1>5. Named'
  BY <1>1, <1>3 DEF Found, Named, NewObject
<1>6. ASSUME NEW i \in DOMAIN frames PROVE Fits(frames[i], obj', loaded')
  <2>1. Fits(frames[i], obj, loaded) /\ obj'[frames[i].ob] = obj[frames[i].ob]
    BY <1>4 DEF Found, NewObject
  <2>2. \A x \in Files : loaded[x] # frames[i].ob => loaded'[x] # frames[i].ob
    BY <1>3, <1>4
  <2> QED
    BY <2>1, <2>2 DEF Fits
<1>7. Fits(frame, obj', loaded')
  <2>1. (frame.op = "owner" /\ frame.arg = "clone") => \A x \in Files : loaded'[x] = loaded[x] /\ loaded[x] # made + 1
    BY <1>2, <1>3
  <2> QED
    BY <2>1 DEF Fits, NewObject
<1>8. /\ \A i \in DOMAIN frames' : frames'[i] = frame \/ \E j \in DOMAIN frames : frames'[i] = frames[j]
      /\ \A o : Waits(frames, o) => Waits(frames', o)
      /\ \E i \in DOMAIN frames' : frames'[i] = frame
  <2>1. frames' # frames
    BY DEF Found, Types
  <2> QED
    BY <2>1, GrownStack DEF Found
<1>9. \A i \in DOMAIN frames' : Fits(frames'[i], obj', loaded')
  BY <1>6, <1>7, <1>8
<1>10. ASSUME NEW x \in Files, loaded'[x] # NoObject PROVE Settled(loaded[x], frames)'
  <2>1. CASE loaded'[x] = loaded[x]
    <3>1. Settled(loaded[x], frames) /\ obj'[loaded[x]] = obj[loaded[x]]
      BY <1>1, <1>10, <2>1 DEF Found, NewObject
    <3> QED
      BY <1>8, <2>1, <3>1 DEF Settled
  <2>2. CASE loaded'[x] = made + 1 /\ frame.op \in Making
    BY <1>8, <2>2 DEF Settled, Waits
  <2> QED
    BY <1>3, <2>1, <2>2
<1> QED
  BY <1>5, <1>9, <1>10 DEF Found

LEMMA FoundLoaded ==
    ASSUME Found, Types', NEW f \in Files, NEW loader \in 0 .. made, LoadFromSource(f, loader)
    PROVE  Found'
<1> DEFINE program == Compile(f, Disk, cache).program
           frame == IF master = NoObject THEN Frame("create", made + 1, made + 1, loader, f)
                    ELSE Frame("owner", master, made + 1, loader, "create")
<1>1. /\ made + 1 \in Objects /\ Shape
      /\ obj' = Constructed(made + 1, f, program)
      /\ loaded' = [loaded EXCEPT ![f] = made + 1]
      /\ frames' = Append(frames, frame)
  BY ObjectTableAssumption DEF Found, Types, Objects, LoadFromSource, Born, Push
<1>2. NewObject(made + 1, f)
  BY <1>1, NewObjectMade
<1>3. /\ loader \in Objects \cup {NoObject} /\ (master # NoObject => master \in Objects)
  BY WhoIsMade DEF Found, Types
<1>4. /\ frame \in FrameSet /\ frame.ob = made + 1 /\ frame.op \in Making
      /\ (frame.op = "create" => frame.arg = f) /\ ~(frame.op = "owner" /\ frame.arg = "clone")
  BY <1>1, <1>3 DEF Frame, FrameSet, Ops, Making
<1> HIDE DEF frame, program
<1> QED
  BY <1>1, <1>2, <1>4, FoundBorn

LEMMA FoundCloned ==
    ASSUME Found, Types', NEW f \in Files, NEW who \in 0 .. made, CloneObject(who, f)
    PROVE  Found'
<1> DEFINE program == Compile(f, Disk, cache).program
           frame == IF master = NoObject THEN Frame("clone", made + 1, made + 1, who, f)
                    ELSE Frame("owner", master, made + 1, who, "clone")
<1>1. CASE UNCHANGED <<obj, frames>>
  <2>1. UNCHANGED <<obj, frames, loaded>>
    BY <1>1 DEF CloneObject
  <2> QED
    BY <2>1 DEF Found, Named, Settled, Waits, Fits
<1>2. CASE ~UNCHANGED <<obj, frames>>
  <2>1. /\ made + 1 \in Objects /\ Shape
        /\ obj' = [Constructed(made + 1, f, program) EXCEPT ![made + 1].clone = (master = NoObject)]
        /\ loaded' = loaded
        /\ frames' = Append(frames, frame)
    BY <1>2, ObjectTableAssumption DEF Found, Types, Objects, CloneObject, Born, Push
  <2>2. NewObject(made + 1, f)
    BY <2>1, NewObjectMade
  <2>3. /\ who \in Objects \cup {NoObject} /\ (master # NoObject => master \in Objects)
    BY WhoIsMade DEF Found, Types
  <2>4. frame \in FrameSet /\ frame.ob = made + 1 /\ frame.op # "create"
    BY <2>1, <2>3 DEF Frame, FrameSet, Ops
  <2> HIDE DEF frame, program
  <2> QED
    BY <2>1, <2>2, <2>4, FoundBorn
<1> QED
  BY <1>1, <1>2

(* compile_object() hands over an object. *)
LEMMA FoundVirtual ==
    ASSUME Found, Types', NEW o \in 1 .. made, VirtualLoaded(o)
    PROVE  Found'
<1>1. /\ Top.arg \in Files /\ frames # <<>> /\ Top.op \notin Making
      /\ o \in Objects /\ o \in 0 .. made /\ o # NoObject
  BY TopOfStack, WhoIsMade DEF VirtualLoaded, In, FrameOK, Found, Making, Live, NoObject, Types
<1>2. \A f \in Files : loaded'[f] = IF f = Top.arg THEN o ELSE loaded[f]
  BY <1>1 DEF VirtualLoaded, Found, Types
<1>3. obj'[o].virtual /\ \A x \in Objects : x # o => obj'[x] = obj[x]
  BY <1>1 DEF VirtualLoaded, Found, Types, Shape, Fields
<1>4. /\ \A i \in DOMAIN frames' : frames'[i].op = "uids" \/ \E j \in DOMAIN frames : frames'[i] = frames[j]
      /\ \A x : Waits(frames, x) => Waits(frames', x)
  BY <1>1, ReturnStack DEF VirtualLoaded, Found
<1>5. \A f \in Files : loaded[f] # NoObject => loaded[f] \in Objects
  BY WhoIsMade DEF Found, Types
<1>6. Named'
  BY <1>2, <1>3, <1>5 DEF Found, Named
<1>7. ASSUME NEW j \in DOMAIN frames PROVE Fits(frames[j], obj', loaded')
  <2>1. Fits(frames[j], obj, loaded) /\ frames[j].ob \in Objects
    BY DEF Found, Types, FrameOK, FrameSet
  <2>2. CASE frames[j].ob = o
    BY <1>3, <2>2 DEF Fits
  <2>3. CASE frames[j].ob # o
    <3>1. obj'[frames[j].ob] = obj[frames[j].ob]
      BY <1>3, <2>1, <2>3
    <3>2. \A f \in Files : loaded[f] # frames[j].ob => loaded'[f] # frames[j].ob
      BY <1>2, <2>3
    <3> QED
      BY <2>1, <3>1, <3>2 DEF Fits
  <2> QED
    BY <2>2, <2>3
<1>8. \A i \in DOMAIN frames' : Fits(frames'[i], obj', loaded')
  BY <1>4, <1>7 DEF Fits
<1>9. \A f \in Files : loaded'[f] # NoObject => Settled(loaded[f], frames)'
  BY <1>2, <1>3, <1>4, <1>5 DEF Found, Settled
<1> QED
  BY <1>6, <1>8, <1>9 DEF Found

LEMMA FoundSame ==
    ASSUME Found, Types', UNCHANGED <<loaded, frames>>, Keeping
    PROVE  Found'
<1>1. \A x \in Objects : Waits(frames, x) => Settled(x, frames)'
  BY DEF Settled
<1> QED
  BY <1>1, FoundFrom

(* What arming does. *)
LEMMA ArmedKeeps ==
    ASSUME Shape, NEW o \in Objects, obj' = Armed(o)
    PROVE  Keeping /\ (obj'[o].armed \/ obj'[o].gone)
<1>1. \A x \in Objects : x # o => obj'[x] = obj[x]
  BY DEF Shape, Armed
<1>2. obj'[o] = [obj[o] EXCEPT !.armed = @ \/ ~obj[o].gone]
  BY DEF Shape, Armed
<1>3. /\ obj'[o].file = obj[o].file /\ obj'[o].virtual = obj[o].virtual /\ obj'[o].gone = obj[o].gone
      /\ obj'[o].armed = (obj[o].armed \/ ~obj[o].gone)
  BY <1>2 DEF Shape, Fields
<1>4. (obj[o].armed => obj'[o].armed) /\ (obj'[o].armed \/ obj'[o].gone)
  BY <1>3
<1> QED
  BY <1>1, <1>3, <1>4 DEF Keeping

LEMMA FoundStep ==
    ASSUME Found, [Next]_vars
    PROVE  Found'
<1>1. /\ Types /\ Types' /\ Shape /\ 1 .. made \subseteq Objects /\ Live \subseteq Objects
      /\ Loadable \subseteq Files /\ {MasterFile, SimulFile} \subseteq Files
      /\ loaded \in [Files -> 0 .. made] /\ NoObject \in 0 .. made
  BY TypesStep, WhoIsMade, ObjectTableAssumption DEF Found, Types, Live, NoObject
<1>2. CASE BootLoad
  <2>1. CASE UNCHANGED <<obj, loaded>> /\ frames = <<>> /\ \E result : Booted(result)
    <3>1. \A i \in DOMAIN frames' : frames'[i].op = "uids"
      BY <2>1 DEF Booted, Frame
    <3>2. \A i \in DOMAIN frames' : Fits(frames'[i], obj, loaded)
      BY <3>1 DEF Fits
    <3>3. \A x : ~Waits(frames, x)
      BY <2>1 DEF Waits
    <3> QED
      BY <1>1, <2>1, <3>2, <3>3, FoundFrom DEF Keeping
  <2>2. CASE \E f \in Files : LoadFromSource(f, NoObject)
    BY <1>1, <2>2, FoundLoaded
  <2> QED
    BY <1>1, <1>2, <2>1, <2>2 DEF BootLoad, LoadRefused, table
<1>3. CASE \/ \E root \in Names \cup {NoName} : CaptureBootUids(root)
           \/ EuidGranted \/ EuidDenied \/ ReloadEnds
  <2>1. frames # <<>> /\ Top.op \notin Making /\ frames' = Rest /\ UNCHANGED loaded
    BY <1>3 DEF CaptureBootUids, EuidGranted, EuidDenied, ReloadEnds, In, Making, table
  <2>2. Top \in FrameSet
    BY <1>1, <2>1, TopOfStack DEF FrameOK
  <2>3. Keeping
    <3>1. CASE \E root \in Names \cup {NoName} : CaptureBootUids(root)
      BY <1>1, <3>1 DEF CaptureBootUids, Keeping, Shape, Fields
    <3>2. CASE EuidGranted \/ EuidDenied
      BY <1>1, <3>2 DEF EuidGranted, EuidDenied, Keeping, Shape, Fields
    <3>3. CASE ReloadEnds
      BY <1>1, <2>2, <3>3, ArmedKeeps DEF ReloadEnds, FrameSet
    <3> QED
      BY <1>3, <3>1, <3>2, <3>3
  <2> QED
    BY <1>1, <2>1, <2>2, <2>3, FoundQuiet
<1>4. CASE \E f \in Files : Rewrite(f) \/ \E who \in Current : ReplaceProgram(who, f)
  BY <1>1, <1>4, FoundSame DEF Rewrite, ReplaceProgram, table, Keeping
<1>5. CASE \E who \in Current : \/ DropEuid(who) \/ \E name \in Names : TakeEuid(who, name)
                                \/ \E o \in Live : ExportUid(who, o)
  <2>1. Keeping
    BY <1>1, <1>5 DEF DropEuid, TakeEuid, ExportUid, Keeping, Shape, Fields
  <2> QED
    BY <1>1, <1>5, <2>1, FoundSame DEF DropEuid, TakeEuid, ExportUid, table
<1>6. CASE ProcessPendingReplacePrograms \/ UNCHANGED vars
  <2>1. Keeping
    BY <1>1, <1>6 DEF ProcessPendingReplacePrograms, vars, Keeping, Shape, Fields
  <2> QED
    BY <1>1, <1>6, <2>1, FoundSame DEF ProcessPendingReplacePrograms, vars, table
<1>7. ASSUME NEW who \in Current, NEW f \in Loadable, LoadObject(who, f) \/ CloneObject(who, f)
      PROVE  Found'
  <2>1. who \in 0 .. made
    BY <1>1, WhoIsMade
  <2>2. CASE LoadFromSource(f, who)
    BY <1>1, <2>1, <2>2, FoundLoaded
  <2>3. CASE LoadRefused(f) /\ UNCHANGED frames
    BY <1>1, <2>3, FoundSame DEF LoadRefused, Keeping
  <2>4. CASE CloneObject(who, f)
    BY <1>1, <2>1, <2>4, FoundCloned
  <2> QED
    BY <1>7, <2>2, <2>3, <2>4 DEF LoadObject
<1>8. ASSUME NEW o \in 1 .. made, VirtualLoaded(o) PROVE Found'
  BY <1>1, <1>8, FoundVirtual
<1>9. ASSUME NEW o \in Live, DestructObject(o) PROVE Found'
  <2>1. Keeping
    BY <1>1, <1>9 DEF DestructObject, Keeping, Shape, Fields
  <2>2. \A f \in Files : loaded'[f] \in {NoObject, loaded[f]}
    BY <1>1, <1>9 DEF DestructObject
  <2>3. \A x \in Objects : Waits(frames, x) => Settled(x, frames)'
    BY <1>9 DEF Settled, DestructObject
  <2> QED
    BY <1>1, <1>9, <2>1, <2>2, <2>3, FoundFrom DEF DestructObject
<1>10. CASE \/ \E o \in Live : ReloadObject(o)
            \/ \E who \in Current, f \in Loadable : LoadVirtual(who, f)
            \/ \E who \in Current, name \in Names : AskEuid(who, name)
  <2>1. /\ UNCHANGED <<obj, loaded>>
        /\ \E op, who, ob, by, arg : op \notin Making /\ frames' = Append(frames, Frame(op, who, ob, by, arg))
    BY <1>10 DEF ReloadObject, LoadVirtual, AskEuid, Push, table, Making
  <2>2. PICK op, who, ob, by, arg : op \notin Making /\ frames' = Append(frames, Frame(op, who, ob, by, arg))
    BY <2>1
  <2> DEFINE frame == Frame(op, who, ob, by, arg)
  <2>3. frame.op \notin Making
    BY <2>2 DEF Frame
  <2>4. frames' = Append(frames, frame)
    BY <2>2
  <2> HIDE DEF frame
  <2>5. frame \in FrameSet
    <3>1. frames' \in Seq(FrameSet) /\ frames \in Seq(FrameSet)
      BY <1>1 DEF Types
    <3>2. Len(frames) + 1 \in DOMAIN frames' /\ frames'[Len(frames) + 1] = frame
      BY <2>4, <3>1
    <3> QED
      BY <3>1, <3>2
  <2> QED
    BY <1>1, <2>1, <2>3, <2>4, <2>5, FoundQuiet DEF Keeping
<1>11. CASE VirtualRefused
  <2>1. frames # <<>> /\ Top.op \notin Making /\ UNCHANGED <<obj, loaded>>
    BY <1>11 DEF VirtualRefused, In, Making, table
  <2>2. /\ \A i \in DOMAIN frames' : frames'[i].op = "uids" \/ \E j \in DOMAIN frames : frames'[i] = frames[j]
        /\ \A x : Waits(frames, x) => Waits(frames', x)
    BY <1>1, <1>11, <2>1, ReturnStack DEF VirtualRefused
  <2>3. \A i \in DOMAIN frames' : frames'[i].op = "uids" => Fits(frames'[i], obj, loaded)
    BY DEF Fits
  <2> QED
    BY <1>1, <2>1, <2>2, <2>3, FoundFrom DEF Keeping, Settled
<1>12. ASSUME NEW creator, AssignObjectUid(creator) PROVE Found'
  <2> DEFINE o == Top.ob
             frame == Frame(Top.arg, o, o, Top.by, obj[o].file)
  <2>1. /\ frames # <<>> /\ Top.op = "owner" /\ frames' = Append(Rest, frame)
        /\ Keeping /\ UNCHANGED loaded
    <3>1. frames # <<>> /\ Top.op = "owner" /\ frames' = Append(Rest, frame) /\ UNCHANGED loaded
      BY <1>12 DEF AssignObjectUid, In, table
    <3>2. SameObjects
      BY <1>1, <1>12, OnlyIdsAssigned
    <3> QED
      BY <3>1, <3>2 DEF SameObjects, Keeping
  <2>2. FrameOK(Top, made) /\ Len(frames) \in DOMAIN frames /\ Top = frames[Len(frames)]
    BY <1>1, <2>1, TopOfStack DEF Top
  <2>3. o \in Objects /\ Top.arg \in {"create", "clone"} /\ Top.by \in Objects \cup {NoObject} /\ obj[o].file \in Files
    BY <1>1, <2>1, <2>2 DEF FrameOK, FrameSet, Shape
  <2>4. frame \in FrameSet /\ frame.op = Top.arg /\ frame.ob = o /\ frame.arg = obj[o].file
    BY <2>3 DEF Frame, FrameSet, Ops
  <2>5. Fits(frame, obj, loaded)
    BY <2>3, <2>4 DEF Fits
  <2> HIDE DEF frame
  <2>6. /\ \A i \in DOMAIN frames' : frames'[i] = frame \/ \E j \in DOMAIN frames : frames'[i] = frames[j]
        /\ \A x : Waits(frames, x) => Waits(frames', x) \/ x = o
    BY <1>1, <2>1, <2>4, PoppedStack
  <2>7. \E i \in DOMAIN frames' : frames'[i] = frame
    <3>1. Rest \in Seq(FrameSet)
      BY <1>1, <2>1, TopOfStack
    <3>2. Len(Rest) + 1 \in DOMAIN frames' /\ frames'[Len(Rest) + 1] = frame
      BY <2>1, <2>4, <3>1
    <3> QED
      BY <3>2
  <2>8. CASE Top.arg = "create"
    <3>1. Waits(frames', o)
      BY <2>4, <2>7, <2>8 DEF Waits, Making
    <3> QED
      BY <1>1, <2>1, <2>5, <2>6, <3>1, FoundFrom DEF Settled
  <2>9. CASE Top.arg = "clone"
    <3>1. obj[o].virtual \/ \A f \in Files : loaded[f] # o
      BY <2>1, <2>2, <2>9 DEF Found, Fits
    <3>2. \A f \in Files : loaded'[f] = o => obj'[o].virtual
      BY <2>1, <2>3, <3>1 DEF Keeping
    <3> QED
      BY <1>1, <2>1, <2>5, <2>6, <3>2, FoundFrom DEF Settled
  <2> QED
    BY <2>3, <2>8, <2>9
<1>13. CASE CreateReturns \/ CreateThrows
  <2> DEFINE o == Top.ob
  <2>1. frames # <<>> /\ Top.op \in {"create", "clone"}
    BY <1>13 DEF CreateReturns, CreateThrows, In
  <2>2. FrameOK(Top, made) /\ Len(frames) \in DOMAIN frames /\ Top = frames[Len(frames)]
    BY <1>1, <2>1, TopOfStack DEF Top
  <2>3. o \in Objects /\ o \in 0 .. made /\ o # NoObject
    BY <1>1, <2>2 DEF FrameOK, FrameSet, Objects, NoObject
  <2>4. \E result \in 0 .. made : Return(result)
    BY <1>1, <1>13, <2>3 DEF CreateReturns, CreateThrows
  <2>5. /\ \A i \in DOMAIN frames' : frames'[i].op = "uids" \/ \E j \in DOMAIN frames : frames'[i] = frames[j]
        /\ \A x : Waits(frames, x) => Waits(frames', x) \/ (Top.op \in Making /\ x = o)
    BY <1>1, <2>1, <2>4, ReturnStack
  <2>6. \A i \in DOMAIN frames' : frames'[i].op = "uids" => Fits(frames'[i], obj, loaded)
    BY DEF Fits
  <2>7. CASE CreateReturns
    <3>1. Keeping /\ (obj'[o].armed \/ obj'[o].gone) /\ UNCHANGED loaded
      BY <1>1, <2>3, <2>7, ArmedKeeps DEF CreateReturns, table
    <3> QED
      BY <1>1, <2>5, <2>6, <3>1, FoundFrom DEF Settled
  <2>8. CASE CreateThrows
    <3>1. Keeping /\ \A f \in Files : loaded'[f] \in {NoObject, loaded[f]}
      BY <1>1, <2>8 DEF CreateThrows, Keeping
    <3>2. ASSUME NEW f \in Files, loaded'[f] = o, Top.op \in Making PROVE obj'[o].virtual
      <4>1. loaded[f] = o /\ f # Top.arg /\ obj'[o].virtual = obj[o].virtual /\ Top.op = "create"
        BY <1>1, <2>1, <2>3, <2>8, <3>1, <3>2 DEF CreateThrows, Keeping, Making
      <4>2. obj[o].virtual \/ obj[o].file = f
        BY <2>3, <4>1 DEF Found, Named
      <4>3. obj[o].virtual \/ Top.arg = obj[o].file
        BY <2>2, <4>1 DEF Found, Fits
      <4> QED
        BY <4>1, <4>2, <4>3
    <3> QED
      BY <1>1, <2>5, <2>6, <3>1, <3>2, FoundFrom DEF Settled
  <2> QED
    BY <1>13, <2>7, <2>8
<1> QED
  BY <1>2, <1>3, <1>4, <1>5, <1>6, <1>7, <1>8, <1>9, <1>10, <1>11, <1>12, <1>13 DEF Next

(* Outside compile_object(), a name never finds an object whose create()   *)
(* has failed or that loadObject() left half made: it is armed, destructed *)
(* or still waited for, although it is in the table before its create()    *)
(* runs and other code loads, clones, renames and destructs meanwhile.     *)
THEOREM FoundCompleteTheorem == Spec => []FoundIsComplete
<1>1. Init => Found
  BY TypesInit DEF Init, Found, Named
<1>2. Found /\ [Next]_vars => Found'
  BY FoundStep
<1>3. Found => FoundIsComplete
  BY DEF Found, Settled, Waits, Making, FoundIsComplete
<1> QED
  BY <1>1, <1>2, <1>3, PTL DEF Spec

-----------------------------------------------------------------------------
(* Variables of replaced programs.  P is a set of programs the compiler      *)
(* makes: from any of the texts it makes another of them out of those it has *)
(* cached, an inherited program is one of them, and its variables have their *)
(* place among those of its heirs.                                           *)
Ages == {a \in [Files -> Nat] : \A f \in Files : a[f] \in DOMAIN Texts(f)}
DiskAt(a) == [f \in Files |-> Texts(f)[a[f]]]
Caches(P) == [Files -> P \cup {NullProgram}]

Compiles(P) ==
    \A f \in Files, a \in Ages, c \in Caches(P) :
        /\ Compile(f, DiskAt(a), c).program \in P \cup {NullProgram}
        /\ Compile(f, DiskAt(a), c).cache \in Caches(P)

InPlace(P) ==
    \A p \in P, f \in Files :
        LET q == Inherited(p, f) IN
        q # NullProgram => q \in P /\ Kept(Slots(p), Base(p, q), Len(Slots(q))) = Slots(q)

(* A request is about the program that its object still has, and it is the   *)
(* only one of this object.                                                  *)
Requested(request) ==
    /\ request.ob \in 1 .. made
    /\ \E f \in Files : request.program = Inherited(obj[request.ob].program, f)
    /\ request.program # NullProgram
    /\ request.offset = Base(obj[request.ob].program, request.program)

OneRequest ==
    /\ Len(pending) \in Nat /\ DOMAIN pending = 1 .. Len(pending)
    /\ \A i, j \in DOMAIN pending : pending[i].ob = pending[j].ob => i = j
    /\ \A i \in DOMAIN pending : Requested(pending[i])

Filled(P) ==
    /\ Types /\ age \in Ages /\ cache \in Caches(P)
    /\ \A o \in 1 .. made : obj[o].program \in P /\ obj[o].vars = Slots(obj[o].program)
    /\ OneRequest

(* Every set of natural numbers that is not empty has a least one.           *)
LEMMA LeastNatural ==
    ASSUME NEW T \in SUBSET Nat, T # {}
    PROVE  \E x \in T : \A y \in T : x <= y
<1> DEFINE R == {ss \in Nat \X Nat : ss[1] < ss[2]}
<1>1. IsWellFoundedOn(R, Nat)
  BY NatLessThanWellFounded, Zenon DEF OpToRel
<1>2. \A x, y \in Nat : <<y, x>> \in R <=> y < x
  OBVIOUS
<1> HIDE DEF R
<1>3. PICK x \in T : \A y \in T : ~(<<y, x>> \in R)
  BY <1>1, WFMin
<1>4. ASSUME NEW y \in T PROVE x <= y
  <2>1. x \in Nat /\ y \in Nat
    OBVIOUS
  <2>2. ~(y < x)
    BY <1>2, <1>3, <2>1, Zenon
  <2> QED
    BY <2>1, <2>2
<1> QED
  BY <1>4, Zenon

(* processPendingReplacePrograms() over a list in which only entry j, if it  *)
(* is one, is about o: that request is carried out on the object as it was.  *)
LEMMA SwappedOnce ==
    ASSUME Len(pending) \in Nat, DOMAIN pending = 1 .. Len(pending), NEW o, NEW j \in 1 .. (Len(pending) + 1),
           \A i \in DOMAIN pending : pending[i].ob = o <=> i = j
    PROVE  Swapped(o) = IF j \in DOMAIN pending THEN Replaced(obj[o], pending[j]) ELSE obj[o]
<1> DEFINE n == Len(pending)
           after[i \in 0 .. n] ==
               IF i = 0 THEN obj[o]
               ELSE IF pending[i].ob = o THEN Replaced(after[i - 1], pending[i]) ELSE after[i - 1]
           done == Replaced(obj[o], pending[j])
           guess == [i \in 0 .. n |-> IF i < j THEN obj[o] ELSE done]
<1> HIDE DEF n
<1>0. n \in Nat /\ DOMAIN pending = 1 .. n /\ j \in 1 .. (n + 1)
  BY DEF n
<1>1. guess = [i \in 0 .. n |-> IF i = 0 THEN obj[o]
                                ELSE IF pending[i].ob = o THEN Replaced(guess[i - 1], pending[i]) ELSE guess[i - 1]]
  <2>1. ASSUME NEW i \in 1 .. n PROVE pending[i].ob = o <=> i = j
    BY <1>0
  <2>2. ASSUME NEW i \in 1 .. n, i = j PROVE guess[i - 1] = obj[o] /\ guess[i] = done
    BY <1>0, <2>2
  <2>3. ASSUME NEW i \in 1 .. n, i # j PROVE guess[i] = guess[i - 1]
    BY <1>0, <2>3
  <2>4. 0 \in 0 .. n /\ guess[0] = obj[o]
    BY <1>0
  <2>5. ASSUME NEW i \in 0 .. n
        PROVE  guess[i] = IF i = 0 THEN obj[o]
                          ELSE IF pending[i].ob = o THEN Replaced(guess[i - 1], pending[i]) ELSE guess[i - 1]
    <3>1. CASE i = 0
      BY <2>4, <3>1
    <3>2. CASE i # 0 /\ i = j
      <4>1. i \in 1 .. n
        BY <1>0, <3>2
      <4>2. pending[i].ob = o /\ guess[i - 1] = obj[o] /\ guess[i] = done
        BY <2>1, <2>2, <3>2, <4>1
      <4> QED
        BY <3>2, <4>2, Zenon
    <3>3. CASE i # 0 /\ i # j
      <4>1. i \in 1 .. n
        BY <1>0, <3>3
      <4>2. pending[i].ob # o /\ guess[i] = guess[i - 1]
        BY <2>1, <2>3, <3>3, <4>1
      <4> QED
        BY <3>3, <4>2, Zenon
    <3> QED
      BY <3>1, <3>2, <3>3
  <2> HIDE DEF done
  <2>6. guess = [i \in 0 .. n |-> guess[i]]
    OBVIOUS
  <2> QED
    BY <2>5, <2>6, Zenon
<1>2. after = [i \in 0 .. n |-> IF i = 0 THEN obj[o]
                                ELSE IF pending[i].ob = o THEN Replaced(after[i - 1], pending[i]) ELSE after[i - 1]]
  <2> HIDE DEF guess
  <2> QED
    BY <1>1, Zenon
<1>3. Swapped(o) = after[n]
  BY Zenon DEF Swapped, n
<1> HIDE DEF after
<1>4. ASSUME NEW k \in 0 .. n, after[k] # guess[k] PROVE FALSE
  <2> DEFINE T == {i \in 0 .. n : after[i] # guess[i]}
  <2> HIDE DEF guess
  <2>1. T \in SUBSET Nat /\ T # {}
    BY <1>0, <1>4
  <2>2. PICK m \in T : \A i \in T : m <= i
    BY <2>1, LeastNatural, Zenon
  <2>3. m \in 0 .. n /\ after[m] # guess[m]
    BY <2>2
  <2>4. m # 0 => m - 1 \in 0 .. n /\ after[m - 1] = guess[m - 1]
    BY <1>0, <2>2, <2>3
  <2>5. /\ after[m] = IF m = 0 THEN obj[o]
                      ELSE IF pending[m].ob = o THEN Replaced(after[m - 1], pending[m]) ELSE after[m - 1]
        /\ guess[m] = IF m = 0 THEN obj[o]
                      ELSE IF pending[m].ob = o THEN Replaced(guess[m - 1], pending[m]) ELSE guess[m - 1]
    BY <1>1, <1>2, <2>3, Zenon
  <2>6. CASE m = 0
    BY <2>3, <2>5, <2>6
  <2>7. CASE m # 0
    <3>1. PICK before : after[m - 1] = before /\ guess[m - 1] = before
      BY <2>4, <2>7
    <3> QED
      BY <2>3, <2>5, <2>7, <3>1
  <2> QED
    BY <2>6, <2>7
<1>5. after[n] = guess[n]
  BY <1>0, <1>4
<1>6. guess[n] = IF j \in DOMAIN pending THEN done ELSE obj[o]
  <2> HIDE DEF done
  <2> QED
    BY <1>0
<1> QED
  BY <1>3, <1>5, <1>6, Zenon

(* Objects and requests keep what the requests are about.                    *)
LEMMA FilledFrom ==
    ASSUME NEW P, Filled(P), Types', age' \in Ages, cache' \in Caches(P), made' \in {made, made + 1},
           \A x \in 1 .. made : obj'[x].program = obj[x].program /\ obj'[x].vars = obj[x].vars,
           made' = made + 1 => /\ obj'[made + 1].program \in P
                               /\ obj'[made + 1].vars = Slots(obj'[made + 1].program),
           UNCHANGED pending
    PROVE  Filled(P)'
<1>1. made \in Nat
  BY ObjectTableAssumption DEF Filled, Types
<1>2. \A x \in 1 .. made' : obj'[x].program \in P /\ obj'[x].vars = Slots(obj'[x].program)
  BY <1>1 DEF Filled
<1>3. ASSUME NEW i \in DOMAIN pending PROVE Requested(pending[i])'
  <2>1. Requested(pending[i])
    BY DEF Filled, OneRequest
  <2>2. pending[i].ob \in 1 .. made /\ pending[i].ob \in 1 .. made'
    BY <1>1, <2>1 DEF Requested
  <2>3. obj'[pending[i].ob].program = obj[pending[i].ob].program
    BY <2>2
  <2> QED
    BY <2>1, <2>2, <2>3, Zenon DEF Requested
<1>4. OneRequest'
  BY <1>3, Zenon DEF Filled, OneRequest
<1> QED
  BY <1>2, <1>4, Zenon DEF Filled

(* compile() makes a program of P and caches such.                           *)
LEMMA CompiledIn ==
    ASSUME NEW P, Filled(P), Compiles(P), NEW f \in Files
    PROVE  /\ Compile(f, Disk, cache).program \in P \cup {NullProgram}
           /\ Compile(f, Disk, cache).cache \in Caches(P)
<1>1. Disk = DiskAt(age) /\ age \in Ages /\ cache \in Caches(P)
  BY Zenon DEF Disk, DiskAt, Filled
<1> QED
  BY <1>1, Zenon DEF Compiles

(* A new object has the variables of its program.                            *)
LEMMA FilledBorn ==
    ASSUME NEW P, Filled(P), Compiles(P), Types', NEW f \in Files, made < MaxObjects, made' = made + 1,
           LET c == Compile(f, Disk, cache) IN
             /\ c.program # NullProgram /\ cache' = c.cache
             /\ \/ obj' = Constructed(made + 1, f, c.program)
                \/ obj' = [Constructed(made + 1, f, c.program) EXCEPT ![made + 1].clone = (master = NoObject)],
           UNCHANGED <<age, pending>>
    PROVE  Filled(P)'
<1>1. PICK program : program = Compile(f, Disk, cache).program
  OBVIOUS
<1>2. /\ program \in P /\ cache' \in Caches(P) /\ age' \in Ages
      /\ \/ obj' = Constructed(made + 1, f, program)
         \/ obj' = [Constructed(made + 1, f, program) EXCEPT ![made + 1].clone = (master = NoObject)]
  BY <1>1, CompiledIn DEF Filled
<1>3. made \in Nat /\ made + 1 \in Objects /\ Shape /\ 1 .. made \subseteq Objects \ {made + 1}
  BY ObjectTableAssumption DEF Filled, Types, Objects
<1>4. \A x \in Objects \ {made + 1} : obj'[x] = obj[x]
  BY <1>2, <1>3 DEF Shape, Constructed
<1>5. obj'[made + 1].program = program /\ obj'[made + 1].vars = Slots(program)
  <2>1. \/ obj'[made + 1] = [Unmade EXCEPT !.file = f, !.program = program, !.vars = Slots(program)]
        \/ obj'[made + 1] = [[Unmade EXCEPT !.file = f, !.program = program, !.vars = Slots(program)]
                              EXCEPT !.clone = (master = NoObject)]
    BY <1>2, <1>3 DEF Shape, Constructed
  <2>2. CASE obj'[made + 1] = [Unmade EXCEPT !.file = f, !.program = program, !.vars = Slots(program)]
    BY <2>2 DEF Unmade
  <2>3. CASE obj'[made + 1] = [[Unmade EXCEPT !.file = f, !.program = program, !.vars = Slots(program)]
                               EXCEPT !.clone = (master = NoObject)]
    BY <2>3 DEF Unmade
  <2> QED
    BY <2>1, <2>2, <2>3
<1>6. \A x \in 1 .. made : obj'[x].program = obj[x].program /\ obj'[x].vars = obj[x].vars
  BY <1>3, <1>4
<1>7. obj'[made + 1].program \in P /\ obj'[made + 1].vars = Slots(obj'[made + 1].program)
  BY <1>2, <1>5
<1> QED
  BY <1>2, <1>6, <1>7, FilledFrom, Zenon

(* The requests are carried out.                                             *)
LEMMA FilledSwap ==
    ASSUME NEW P, Filled(P), InPlace(P), Types', ProcessPendingReplacePrograms
    PROVE  Filled(P)'
<1>1. /\ obj' = [o \in Objects |-> [obj[o] EXCEPT !.program = Swapped(o).program, !.vars = Swapped(o).vars]]
      /\ pending' = <<>> /\ UNCHANGED <<age, cache, made>>
  BY DEF ProcessPendingReplacePrograms, table
<1>2. Shape /\ 1 .. made \subseteq Objects /\ OneRequest
  BY WhoIsMade DEF Filled, Types
<1>3. \A o \in Objects : obj'[o].program = Swapped(o).program /\ obj'[o].vars = Swapped(o).vars
  BY <1>1, <1>2 DEF Shape, Fields
<1>4. ASSUME NEW o \in 1 .. made PROVE Swapped(o).program \in P /\ Swapped(o).vars = Slots(Swapped(o).program)
  <2> DEFINE p == obj[o].program
  <2>1. obj[o].program \in P /\ obj[o].vars = Slots(obj[o].program) /\ DOMAIN obj[o] = Fields
    BY <1>2 DEF Filled, Shape
  <2>2. Len(pending) \in Nat /\ DOMAIN pending = 1 .. Len(pending)
    BY <1>2 DEF OneRequest
  <2>3. CASE \A i \in DOMAIN pending : pending[i].ob # o
    <3>1. \A i \in DOMAIN pending : pending[i].ob = o <=> i = Len(pending) + 1
      BY <2>2, <2>3
    <3>2. Len(pending) + 1 \in 1 .. (Len(pending) + 1) /\ Len(pending) + 1 \notin DOMAIN pending
      BY <2>2
    <3>3. Swapped(o) = obj[o]
      BY <2>2, <3>1, <3>2, SwappedOnce
    <3> QED
      BY <2>1, <3>3
  <2>4. ASSUME NEW j \in DOMAIN pending, pending[j].ob = o
        PROVE  Swapped(o).program \in P /\ Swapped(o).vars = Slots(Swapped(o).program)
    <3>1. \A i \in DOMAIN pending : pending[i].ob = o <=> i = j
      BY <1>2, <2>4 DEF OneRequest
    <3>2. j \in 1 .. (Len(pending) + 1)
      BY <2>2
    <3>3. Swapped(o) = Replaced(obj[o], pending[j])
      BY <2>2, <3>1, <3>2, SwappedOnce
    <3>4. PICK q : q = pending[j].program
      OBVIOUS
    <3>5. /\ q \in P /\ Kept(Slots(obj[o].program), pending[j].offset, Len(Slots(q))) = Slots(q)
      <4>1. Requested(pending[j])
        BY <1>2 DEF OneRequest
      <4>2. PICK f \in Files : q = Inherited(obj[o].program, f)
        BY <2>4, <3>4, <4>1 DEF Requested
      <4>3. q # NullProgram /\ pending[j].offset = Base(obj[o].program, q)
        BY <2>4, <3>4, <4>1 DEF Requested
      <4> QED
        BY <2>1, <4>2, <4>3, Zenon DEF InPlace
    <3>6. CASE obj[o].gone
      BY <2>1, <3>3, <3>6 DEF Replaced
    <3>7. CASE ~obj[o].gone
      <4>1. Swapped(o) = [obj[o] EXCEPT !.program = q, !.vars = Kept(@, pending[j].offset, Len(Slots(q)))]
        BY <3>3, <3>4, <3>7, Zenon DEF Replaced
      <4>2. Swapped(o).program = q /\ Swapped(o).vars = Kept(obj[o].vars, pending[j].offset, Len(Slots(q)))
        BY <2>1, <4>1 DEF Fields
      <4> QED
        BY <2>1, <3>5, <4>2
    <3> QED
      BY <3>6, <3>7
  <2> QED
    BY <2>3, <2>4
<1>5. \A o \in 1 .. made' : obj'[o].program \in P /\ obj'[o].vars = Slots(obj'[o].program)
  BY <1>1, <1>2, <1>3, <1>4
<1>6. OneRequest'
  <2>1. Len(pending') = 0
    BY <1>1
  <2>2. DOMAIN pending' = {}
    <3>1. DOMAIN <<>> = {}
      OBVIOUS
    <3> QED
      BY <1>1, <3>1, Zenon
  <2>3. Len(pending') \in Nat /\ DOMAIN pending' = 1 .. Len(pending')
    BY <2>1, <2>2
  <2> QED
    BY <2>2, <2>3 DEF OneRequest
<1> QED
  BY <1>1, <1>5, <1>6, Zenon DEF Filled

(* replace_program(): a request takes the place of an earlier one.           *)
LEMMA FilledRequest ==
    ASSUME NEW P, Filled(P), Types', NEW who \in 1 .. made, NEW f \in Files, ReplaceProgram(who, f)
    PROVE  Filled(P)'
<1> DEFINE q == Inherited(obj[who].program, f)
<1>1. PICK request : request = Request(who, q, Base(obj[who].program, q))
  OBVIOUS
<1>2. /\ pending' = Enqueued(request) /\ q # NullProgram
      /\ UNCHANGED <<age, cache, made, obj>>
  BY <1>1, Zenon DEF ReplaceProgram, table
<1>3. /\ request.ob = who /\ request.program = q /\ request.offset = Base(obj[who].program, q)
  BY <1>1 DEF Request
<1>4. Requested(request)'
  BY <1>2, <1>3, Zenon DEF Requested
<1>5. \A r : Requested(r) => Requested(r)'
  BY <1>2, Zenon DEF Requested
<1>6. /\ Len(pending) \in Nat /\ DOMAIN pending = 1 .. Len(pending)
      /\ \A i, j \in DOMAIN pending : pending[i].ob = pending[j].ob => i = j
      /\ \A i \in DOMAIN pending : Requested(pending[i])
  BY DEF Filled, OneRequest
<1>7. OneRequest'
  <2>1. CASE \E i \in DOMAIN pending : pending[i].ob = request.ob
    <3>1. pending' = [i \in 1 .. Len(pending) |-> IF pending[i].ob = request.ob THEN request ELSE pending[i]]
      BY <1>2, <1>6, <2>1 DEF Enqueued
    <3>2. Len(pending') = Len(pending) /\ DOMAIN pending' = 1 .. Len(pending)
      BY <1>6, <3>1
    <3>3. \A i \in DOMAIN pending : pending'[i] = IF pending[i].ob = request.ob THEN request ELSE pending[i]
      BY <1>6, <3>1
    <3>4. \A i \in DOMAIN pending : pending'[i].ob = pending[i].ob /\ pending'[i] \in {request, pending[i]}
      BY <3>3
    <3>5. ASSUME NEW i \in DOMAIN pending' PROVE Requested(pending[i])'
      <4>1. PICK r : r = pending'[i]
        OBVIOUS
      <4>2. i \in DOMAIN pending /\ r \in {request, pending[i]}
        BY <1>6, <3>2, <3>4, <4>1
      <4>3. Requested(r)'
        BY <1>4, <1>5, <1>6, <4>2
      <4> QED
        BY <4>1, <4>3 DEF Requested
    <3>6. \A i, j \in DOMAIN pending' : pending'[i].ob = pending'[j].ob => i = j
      BY <1>6, <3>2, <3>4
    <3> QED
      BY <1>6, <3>2, <3>5, <3>6 DEF OneRequest
  <2>2. CASE ~\E i \in DOMAIN pending : pending[i].ob = request.ob
    <3>1. pending' = Append(pending, request)
      BY <1>2, <2>2 DEF Enqueued
    <3>2. /\ Len(pending') = Len(pending) + 1 /\ DOMAIN pending' = 1 .. (Len(pending) + 1)
          /\ pending'[Len(pending) + 1] = request /\ \A i \in DOMAIN pending : pending'[i] = pending[i]
      BY <1>6, <3>1
    <3>3. ASSUME NEW i \in DOMAIN pending' PROVE Requested(pending[i])'
      <4>1. PICK r : r = pending'[i]
        OBVIOUS
      <4>2. r = request \/ (i \in DOMAIN pending /\ r = pending[i])
        BY <1>6, <3>2, <4>1
      <4>3. Requested(r)'
        BY <1>4, <1>5, <1>6, <4>2
      <4> QED
        BY <4>1, <4>3 DEF Requested
    <3>4. \A i, j \in DOMAIN pending' : pending'[i].ob = pending'[j].ob => i = j
      BY <1>6, <2>2, <3>2
    <3> QED
      BY <1>6, <3>2, <3>3, <3>4 DEF OneRequest
  <2> QED
    BY <2>1, <2>2
<1> QED
  BY <1>2, <1>7, Zenon DEF Filled

(* Every step keeps the variables those of the program.                      *)
LEMMA FilledStep ==
    ASSUME NEW P, Compiles(P), InPlace(P), Filled(P), [Next]_vars
    PROVE  Filled(P)'
<1>1. /\ Types' /\ Types /\ Shape /\ 1 .. made \subseteq Objects /\ Loadable \subseteq Files
      /\ {MasterFile, SimulFile} \subseteq Files /\ Current \subseteq 1 .. made /\ made \in Nat
  BY TypesStep, WhoIsMade, ObjectTableAssumption DEF Filled, Types
<1> DEFINE Same == \A x \in Objects : obj'[x].program = obj[x].program /\ obj'[x].vars = obj[x].vars
<1>2. CASE Same /\ UNCHANGED <<age, cache, made, pending>>
  <2>1. age' \in Ages /\ cache' \in Caches(P)
    BY <1>2, Zenon DEF Filled, Caches
  <2>2. \A x \in 1 .. made : obj'[x].program = obj[x].program /\ obj'[x].vars = obj[x].vars
    BY <1>1, <1>2
  <2>3. made' \in {made, made + 1} /\ made' # made + 1
    BY <1>1, <1>2
  <2> QED
    BY <1>1, <1>2, <2>1, <2>2, <2>3, FilledFrom, Zenon
<1>3. ASSUME NEW f \in Files, LoadRefused(f), UNCHANGED <<age, pending>> PROVE Filled(P)'
  <2>1. cache' \in Caches(P) /\ age' \in Ages /\ UNCHANGED <<made, obj>>
    BY <1>3, CompiledIn DEF LoadRefused, Filled
  <2>2. made' \in {made, made + 1} /\ made' # made + 1
    BY <1>1, <2>1
  <2> QED
    BY <1>1, <1>3, <2>1, <2>2, FilledFrom, Zenon
<1>4. ASSUME NEW f \in Files, NEW loader, LoadFromSource(f, loader), UNCHANGED <<age, pending>> PROVE Filled(P)'
  BY <1>1, <1>4, FilledBorn DEF LoadFromSource
<1>5. CASE BootLoad
  <2>1. PICK f \in {MasterFile, SimulFile} :
            \/ LoadFromSource(f, NoObject) \/ LoadRefused(f) \/ UNCHANGED <<table, obj>>
    BY <1>5, Zenon DEF BootLoad
  <2>2. UNCHANGED <<age, pending>>
    BY <1>5, Zenon DEF BootLoad
  <2> QED
    BY <1>1, <1>2, <1>3, <1>4, <2>1, <2>2, Zenon DEF table
<1>6. ASSUME NEW who \in Current, NEW f \in Loadable, LoadObject(who, f) PROVE Filled(P)'
  BY <1>1, <1>3, <1>4, <1>6 DEF LoadObject
<1>7. ASSUME NEW who \in Current, NEW f \in Loadable, CloneObject(who, f) PROVE Filled(P)'
  <2>1. /\ cache' = Compile(f, Disk, cache).cache /\ UNCHANGED <<age, pending>>
        /\ \/ /\ Compile(f, Disk, cache).program # NullProgram /\ made < MaxObjects /\ made' = made + 1
              /\ obj' = [Constructed(made + 1, f, Compile(f, Disk, cache).program)
                           EXCEPT ![made + 1].clone = (master = NoObject)]
           \/ UNCHANGED <<made, obj>>
    BY <1>7, Zenon DEF CloneObject
  <2>2. f \in Files /\ cache' \in Caches(P) /\ age' \in Ages
    BY <1>1, <2>1, CompiledIn DEF Filled
  <2>3. CASE UNCHANGED <<made, obj>>
    <3>1. made' \in {made, made + 1} /\ made' # made + 1
      BY <1>1, <2>3
    <3> QED
      BY <1>1, <2>1, <2>2, <2>3, <3>1, FilledFrom, Zenon
  <2>4. CASE made' = made + 1
    <3>1. ~UNCHANGED made
      BY <1>1, <2>4
    <3> QED
      BY <1>1, <2>1, <2>2, <2>4, <3>1, FilledBorn, Zenon
  <2> QED
    BY <2>1, <2>3, <2>4
<1>8. ASSUME NEW who \in Current, NEW f \in Files, ReplaceProgram(who, f) PROVE Filled(P)'
  BY <1>1, <1>8, FilledRequest
<1>9. ASSUME NEW f \in Files, Rewrite(f) PROVE Filled(P)'
  <2>1. /\ age' = [age EXCEPT ![f] = @ + 1] /\ age[f] < Len(Texts(f)) /\ UNCHANGED <<cache, made, obj, pending>>
    BY <1>9 DEF Rewrite, table
  <2>2. age \in [Files -> Nat] /\ \A g \in Files : age[g] \in 1 .. Len(Texts(g)) /\ Len(Texts(g)) \in Nat
    BY ObjectTableAssumption DEF Filled, Ages
  <2>3. age' \in [Files -> Nat] /\ \A g \in Files : age'[g] \in 1 .. Len(Texts(g))
    BY <2>1, <2>2
  <2>4. age' \in Ages /\ cache' \in Caches(P)
    BY <2>1, <2>3, ObjectTableAssumption DEF Ages, Filled
  <2>5. made' \in {made, made + 1} /\ made' # made + 1
    BY <1>1, <2>1
  <2> QED
    BY <1>1, <2>1, <2>4, <2>5, FilledFrom, Zenon
<1>10. ASSUME NEW creator, AssignObjectUid(creator) PROVE Filled(P)'
  <2> DEFINE o == Top.ob
             loader == IF Top.by = NoObject THEN [uid |-> rootUid, euid |-> rootUid] ELSE obj[Top.by]
             given == IF rootUid = NoName THEN [uid |-> NoName, euid |-> NoName]
                      ELSE IF creator = NoName THEN [uid |-> rootUid, euid |-> NoName]
                      ELSE ResolveObjectUids(creator, loader.uid, loader.euid)
             c == Top.arg = "clone"
  <2>1. obj' = [obj EXCEPT ![o].uid = given.uid, ![o].euid = given.euid, ![o].clone = c]
    BY <1>10 DEF AssignObjectUid
  <2>2. UNCHANGED <<age, cache, made, pending>>
    BY <1>10 DEF AssignObjectUid, table
  <2> HIDE DEF given, c, o
  <2>3. Same
    BY <1>1, <2>1 DEF Shape, Fields
  <2> QED
    BY <1>2, <2>2, <2>3
<1>11. CASE \/ \E root \in Names \cup {NoName} : CaptureBootUids(root)
            \/ CreateReturns \/ CreateThrows \/ ReloadEnds \/ VirtualRefused \/ EuidGranted \/ EuidDenied
  <2>1. UNCHANGED <<age, cache, made, pending>>
    BY <1>11, Zenon DEF CaptureBootUids, CreateReturns, CreateThrows, ReloadEnds, VirtualRefused, EuidGranted,
       EuidDenied, table
  <2>2. Same
    <3>1. CASE CreateThrows \/ VirtualRefused \/ EuidDenied
      BY <3>1 DEF CreateThrows, VirtualRefused, EuidDenied
    <3>2. CASE CreateReturns \/ ReloadEnds
      BY <1>1, <3>2 DEF CreateReturns, ReloadEnds, Armed, Shape, Fields
    <3>3. CASE EuidGranted
      BY <1>1, <3>3 DEF EuidGranted, Shape, Fields
    <3>4. ASSUME NEW root \in Names \cup {NoName}, CaptureBootUids(root) PROVE Same
      BY <1>1, <3>4 DEF CaptureBootUids, Shape, Fields
    <3> QED
      BY <1>11, <3>1, <3>2, <3>3, <3>4
  <2> QED
    BY <1>2, <2>1, <2>2
<1>12. ASSUME NEW o \in 1 .. made, VirtualLoaded(o) \/ DestructObject(o) \/ ReloadObject(o) PROVE Filled(P)'
  <2>1. UNCHANGED <<age, cache, made, pending>>
    BY <1>12, Zenon DEF VirtualLoaded, DestructObject, ReloadObject, table
  <2>2. Same
    BY <1>1, <1>12 DEF VirtualLoaded, DestructObject, ReloadObject, Shape, Fields
  <2> QED
    BY <1>2, <2>1, <2>2
<1>13. ASSUME NEW who \in Current,
              \/ \E f \in Loadable : LoadVirtual(who, f)
              \/ \E name \in Names : AskEuid(who, name) \/ TakeEuid(who, name)
              \/ DropEuid(who)
              \/ \E o \in Live : ExportUid(who, o)
       PROVE  Filled(P)'
  <2>1. UNCHANGED <<age, cache, made, pending>>
    BY <1>13, Zenon DEF LoadVirtual, AskEuid, TakeEuid, DropEuid, ExportUid, table
  <2>2. Same
    BY <1>1, <1>13 DEF LoadVirtual, AskEuid, TakeEuid, DropEuid, ExportUid, Shape, Fields
  <2> QED
    BY <1>2, <2>1, <2>2
<1>14. CASE ProcessPendingReplacePrograms
  BY <1>1, <1>14, FilledSwap
<1>15. CASE UNCHANGED vars
  BY <1>2, <1>15, Zenon DEF vars
<1>16. ASSUME NEW o \in Live, DestructObject(o) \/ ReloadObject(o) PROVE Filled(P)'
  BY <1>1, <1>12, <1>16, WhoIsMade
<1> QED
  BY <1>5, <1>6, <1>7, <1>8, <1>9, <1>10, <1>11, <1>12, <1>13, <1>14, <1>15, <1>16, Zenon DEF Next

(* replace_program() may be called by any object, again and again, while     *)
(* files are rewritten and programs compiled anew, and the swap waits for    *)
(* the driver loop: with a compiler that lays out what is inherited in       *)
(* place, an object has the variables of the program it runs.                *)
THEOREM SlotsTheorem ==
    ASSUME NEW P, Compiles(P), InPlace(P)
    PROVE  Spec => []SlotsMatch
<1>1. Init => Filled(P)
  <2> SUFFICES ASSUME Init PROVE Filled(P)
    OBVIOUS
  <2>1. age \in Ages /\ cache \in Caches(P)
    BY ObjectTableAssumption DEF Init, Ages, Caches
  <2>2. Len(pending) \in Nat /\ DOMAIN pending = 1 .. Len(pending) /\ DOMAIN pending = {}
    <3>1. Len(<<>>) = 0 /\ 1 .. 0 = {}
      OBVIOUS
    <3>2. DOMAIN <<>> = {}
      OBVIOUS
    <3>3. pending = <<>>
      BY DEF Init
    <3> QED
      BY <3>1, <3>2, <3>3
  <2>3. 1 .. made = {}
    BY DEF Init
  <2> QED
    BY <2>1, <2>2, <2>3, TypesInit DEF Filled, OneRequest
<1>2. Filled(P) /\ [Next]_vars => Filled(P)'
  BY FilledStep
<1>3. Filled(P) => SlotsMatch
  BY DEF Filled, SlotsMatch
<1> QED
  BY <1>1, <1>2, <1>3, PTL DEF Spec
=============================================================================
