----------------------------- MODULE ObjectTable -----------------------------
(***************************************************************************)
(* ObjectManager: the table of loaded objects, virtual objects, clones,    *)
(* reload_object() and replace_program(), and the user ids that objects    *)
(* are born with.  Making an object asks the master who owns the file and  *)
(* runs create(): LPC code, which can load, clone, destruct or rename      *)
(* objects while the driver is half way.  The driver's calls in progress   *)
(* are a stack of frames, the top one running LPC code as object who; when *)
(* there is none, commands and the like run code in any object.            *)
(*                                                                         *)
(* File names are normalised.  Objects stay referenced, and so are never   *)
(* freed, have no shadows and no on_destruct() (see Shadows), and          *)
(* privs_file() is asked together with creator_file().                     *)
(***************************************************************************)
EXTENDS Integers, Sequences

CONSTANTS Files, Texts(_),         \* the texts a file holds, one after the other
          MasterFile, SimulFile,
          Loadable,                \* files that LPC code names
          Names, NoName,           \* user ids; NoName is the null id
          BackboneUid,             \* what get_bb_uid() answers, if trusted
          MaxObjects, MaxDepth     \* bounds: objects made, frames on the stack
CONSTANTS NullProgram, NoSource,
          Compile(_, _, _),        \* compile(): file, disk, cache
          Inherited(_, _),         \* searchInheritedProgram()
          Slots(_), Base(_, _)     \* a program's variables, an ancestor's place in them

Objects == 1 .. MaxObjects
NoObject == 0

ASSUME ObjectTableAssumption ==
    /\ MaxObjects \in Nat /\ MaxDepth \in Nat
    /\ {MasterFile, SimulFile} \cup Loadable \subseteq Files
    /\ NoName \notin Names
    /\ \A f \in Files : Len(Texts(f)) \in Nat \ {0} /\ DOMAIN Texts(f) = 1 .. Len(Texts(f))

VARIABLES age,       \* which of its texts each file holds
          cache,     \* programCache_, with programSource_
          loaded,    \* loaded_: file name to object
          made,      \* objects made so far
          obj,       \* what each of them is
          boot,      \* how far main() has come
          master, simul, rootUid,
          frames,
          pending,   \* pendingReplacePrograms_
          approved   \* history: the user ids that someone was let have

vars == <<age, cache, loaded, made, obj, boot, master, simul, rootUid, frames, pending, approved>>
table == <<cache, loaded, made>>
booted == <<boot, master, simul, rootUid>>

Disk == [f \in Files |-> Texts(f)[age[f]]]

Unmade == [file |-> MasterFile, program |-> NullProgram, vars |-> <<>>, clone |-> FALSE, virtual |-> FALSE,
           gone |-> FALSE, armed |-> FALSE, uid |-> NoName, euid |-> NoName,
           late |-> FALSE]   \* history: see VirtualLoaded

Init ==
    /\ age = [f \in Files |-> 1]
    /\ cache = [f \in Files |-> NullProgram]
    /\ loaded = [f \in Files |-> NoObject]
    /\ made = 0 /\ obj = [o \in Objects |-> Unmade]
    /\ boot \in {"simul", "master"} /\ master = NoObject /\ simul = NoObject /\ rootUid = NoName
    /\ frames = <<>> /\ pending = <<>> /\ approved = {}

-----------------------------------------------------------------------------
(* Frames: who runs the code, the object it is about, the object that     *)
(* caused it, and a file or a name.                                        *)
Frame(op, who, ob, by, arg) == [op |-> op, who |-> who, ob |-> ob, by |-> by, arg |-> arg]
Top  == frames[Len(frames)]
Rest == SubSeq(frames, 1, Len(frames) - 1)
In(op) == frames # <<>> /\ Top.op = op
Push(frame) == Append(frames, frame)
Deeper == Len(frames) < MaxDepth
Live == {o \in 1 .. made : ~obj[o].gone}

(* The objects LPC code may be running as. *)
Current == IF frames # <<>> THEN {Top.who} ELSE IF boot = "up" THEN Live ELSE {}

(* A load that main() asked for is over: simul_efun first, which may fail, *)
(* then the master, whose user id is asked for at once.                    *)
Booted(result) ==
    \/ /\ boot = "simul" /\ boot' = "master"
       /\ simul' = result /\ frames' = <<>> /\ UNCHANGED <<master, rootUid>>
    \/ /\ boot = "master" /\ result = NoObject /\ boot' = "failed"
       /\ frames' = <<>> /\ UNCHANGED <<master, simul, rootUid>>
    \/ /\ boot = "master" /\ result # NoObject /\ boot' = "uids"
       /\ master' = result /\ frames' = <<Frame("uids", result, result, NoObject, MasterFile)>>
       /\ UNCHANGED <<simul, rootUid>>

(* The driver call below the top frame ends and hands result to its caller. *)
Return(result) ==
    IF Rest = <<>> /\ boot \in {"simul", "master"} THEN Booted(result)
    ELSE frames' = Rest /\ UNCHANGED booted

(* captureBootUids(): the answer of get_root_uid(), NoName if there is none. *)
CaptureBootUids(root) ==
    /\ In("uids") /\ boot' = "up" /\ frames' = Rest
    /\ rootUid' = root
    /\ approved' = IF root = NoName THEN approved ELSE approved \cup {root}
    /\ obj' = IF root = NoName THEN obj ELSE [obj EXCEPT ![master].uid = root, ![master].euid = root]
    /\ UNCHANGED <<age, table, master, simul, pending>>

-----------------------------------------------------------------------------
(* Making objects *)

Constructed(o, f, program) ==
    [obj EXCEPT ![o] = [Unmade EXCEPT !.file = f, !.program = program, !.vars = Slots(program)]]

(* The object exists.  Without a master nobody is asked about it.  op is   *)
(* the frame its create() runs in.                                         *)
Born(op, o, f, loader) ==
    Push(IF master = NoObject THEN Frame(op, o, o, loader, f) ELSE Frame("owner", master, o, loader, op))

(* loadObject() past the look in the table: the source is compiled and the *)
(* object is in the table before anything of it has run.  If compile()     *)
(* fails, the parents it compiled on the way stay cached.                  *)
LoadFromSource(f, loader) ==
    LET c == Compile(f, Disk, cache) IN
    /\ Disk[f] # NoSource /\ c.program # NullProgram /\ made < MaxObjects
    /\ cache' = c.cache /\ made' = made + 1
    /\ obj' = Constructed(made + 1, f, c.program)
    /\ loaded' = [loaded EXCEPT ![f] = made + 1]
    /\ frames' = Born("create", made + 1, f, loader)
LoadRefused(f) ==
    LET c == Compile(f, Disk, cache) IN
    /\ Disk[f] # NoSource /\ c.program = NullProgram
    /\ cache' = c.cache /\ UNCHANGED <<made, obj, loaded>>

BootLoad ==
    LET f == IF boot = "simul" THEN SimulFile ELSE MasterFile IN
    /\ boot \in {"simul", "master"} /\ frames = <<>>
    /\ \/ loaded[f] = NoObject /\ LoadFromSource(f, NoObject) /\ UNCHANGED booted
       \/ loaded[f] = NoObject /\ LoadRefused(f) /\ Booted(NoObject)
       \/ loaded[f] # NoObject /\ Booted(loaded[f]) /\ UNCHANGED <<table, obj>>
    /\ UNCHANGED <<age, pending, approved>>

(* load_object(), or a call to a file name. *)
LoadObject(who, f) ==
    /\ loaded[f] = NoObject
    /\ \/ Deeper /\ LoadFromSource(f, who)
       \/ LoadRefused(f) /\ UNCHANGED frames
    /\ UNCHANGED <<age, booted, pending, approved>>

(* loadVirtualObject(): no source, so compile_object() in the master is    *)
(* asked, unless it is being asked about this very file.  A destructed     *)
(* master answers nothing.                                                 *)
LoadVirtual(who, f) ==
    /\ Deeper /\ loaded[f] = NoObject /\ Disk[f] = NoSource
    /\ master # NoObject /\ ~obj[master].gone
    /\ \A i \in DOMAIN frames : ~(frames[i].op = "virtual" /\ frames[i].arg = f)
    /\ frames' = Push(Frame("virtual", master, master, who, f))
    /\ UNCHANGED <<age, table, obj, booted, pending, approved>>

(* compile_object() answers with an object, which takes the name asked for, *)
(* or with nothing, or raises an error.  Nobody asks whether the object is  *)
(* destructed: what clone_object() or load_object() hands to the master may *)
(* be, when its create() destructed it, and so may a caller of the master.  *)
VirtualLoaded(o) ==
    /\ In("virtual")
    /\ obj' = [obj EXCEPT ![o].file = Top.arg, ![o].virtual = TRUE,
                          ![o].late = @ \/ obj[o].gone]
    /\ loaded' = [loaded EXCEPT ![Top.arg] = o]
    /\ Return(o)
    /\ UNCHANGED <<age, cache, made, pending, approved>>
VirtualRefused ==
    /\ In("virtual") /\ Return(NoObject)
    /\ UNCHANGED <<age, table, obj, pending, approved>>

(* clone_object(): refused to a caller without an effective user id once   *)
(* user ids are in force.                                                  *)
CloneObject(who, f) ==
    LET c == Compile(f, Disk, cache) IN
    /\ rootUid # NoName => obj[who].euid # NoName
    /\ cache' = c.cache
    /\ \/ /\ Deeper /\ c.program # NullProgram /\ made < MaxObjects
          /\ made' = made + 1
          /\ obj' = [Constructed(made + 1, f, c.program) EXCEPT ![made + 1].clone = (master = NoObject)]
          /\ frames' = Born("clone", made + 1, f, who)
       \/ c.program = NullProgram /\ UNCHANGED <<made, obj, frames>>
    /\ UNCHANGED <<age, loaded, booted, pending, approved>>

\* Mutant of ResolveObjectUids: a new object may act as its owner at once.
ResolveObjectUidsOwn(creator, loaderUid, loaderEuid) == [uid |-> creator, euid |-> creator]

(* resolveObjectUids() *)
ResolveObjectUids(creator, loaderUid, loaderEuid) ==
    IF loaderUid = creator THEN [uid |-> loaderUid, euid |-> loaderEuid]
    ELSE IF creator = BackboneUid /\ loaderEuid # NoName
      THEN [uid |-> loaderEuid, euid |-> loaderEuid]
    ELSE [uid |-> creator, euid |-> NoName]

(* assignObjectUid(): creator_file() has answered, NoName standing for a    *)
(* master without one, an error, or an answer that is no string.  The       *)
(* loader's ids are read now, and the driver itself counts as root.         *)
AssignObjectUid(creator) ==
    LET o == Top.ob
        loader == IF Top.by = NoObject THEN [uid |-> rootUid, euid |-> rootUid] ELSE obj[Top.by]
        given == IF rootUid = NoName THEN [uid |-> NoName, euid |-> NoName]
                 ELSE IF creator = NoName THEN [uid |-> rootUid, euid |-> NoName]
                 ELSE ResolveObjectUids(creator, loader.uid, loader.euid)
    IN  /\ In("owner")
        /\ obj' = [obj EXCEPT ![o].uid = given.uid, ![o].euid = given.euid,
                              ![o].clone = (Top.arg = "clone")]
        /\ frames' = Append(Rest, Frame(Top.arg, o, o, Top.by, obj[o].file))
        /\ UNCHANGED <<age, table, booted, pending, approved>>

(* armResetAndCleanup() *)
Armed(o) == [obj EXCEPT ![o].armed = @ \/ ~obj[o].gone]

(* create() has returned. *)
CreateReturns ==
    /\ In("create") \/ In("clone")
    /\ obj' = Armed(Top.ob)
    /\ Return(Top.ob)
    /\ UNCHANGED <<age, table, pending, approved>>

\* Mutant of CreateThrows: the entry made before create() ran is kept.
CreateThrowsKept ==
    /\ In("create") \/ In("clone")
    /\ Return(NoObject)
    /\ UNCHANGED <<age, table, obj, pending, approved>>

(* create() has raised an error: whatever the table has under the name is  *)
(* forgotten, and the object is left to whoever knows it.                  *)
CreateThrows ==
    /\ In("create") \/ In("clone")
    /\ loaded' = IF Top.op = "create" THEN [loaded EXCEPT ![Top.arg] = NoObject] ELSE loaded
    /\ Return(NoObject)
    /\ UNCHANGED <<age, cache, made, obj, pending, approved>>

-----------------------------------------------------------------------------
(* What LPC code does to objects *)

\* Mutant of DestructObject: the name of a clone is left in the table.
DestructObjectKept(o) ==
    /\ Current # {}
    /\ obj' = [obj EXCEPT ![o].gone = TRUE]
    /\ loaded' = IF obj[o].clone THEN loaded ELSE [loaded EXCEPT ![obj[o].file] = NoObject]
    /\ UNCHANGED <<age, cache, made, booted, frames, pending, approved>>

(* destruct(): the table forgets the name of the object. *)
DestructObject(o) ==
    /\ Current # {}
    /\ obj' = [obj EXCEPT ![o].gone = TRUE]
    /\ loaded' = [loaded EXCEPT ![obj[o].file] = NoObject]
    /\ UNCHANGED <<age, cache, made, booted, frames, pending, approved>>

(* reload_object(): the variables are cleared and create() runs again. *)
ReloadObject(o) ==
    /\ Current # {} /\ Deeper
    /\ frames' = Push(Frame("reload", o, o, NoObject, obj[o].file))
    /\ UNCHANGED <<age, table, obj, booted, pending, approved>>
ReloadEnds ==
    /\ In("reload")
    /\ obj' = Armed(Top.ob) /\ frames' = Rest
    /\ UNCHANGED <<age, table, booted, pending, approved>>

(* replace_program(): the swap waits for the driver loop; a second request *)
(* of the same object takes the place of the first.                        *)
Request(o, program, offset) == [ob |-> o, program |-> program, offset |-> offset]
\* Mutant of Enqueued: every request is kept.
EnqueuedTwice(request) == Append(pending, request)

Enqueued(request) ==
    IF \E i \in DOMAIN pending : pending[i].ob = request.ob
      THEN [i \in DOMAIN pending |-> IF pending[i].ob = request.ob THEN request ELSE pending[i]]
    ELSE Append(pending, request)

ReplaceProgram(who, f) ==
    LET own == obj[who].program
        ancestor == Inherited(own, f)
    IN  /\ who # simul /\ ancestor # NullProgram
        /\ pending' = Enqueued(Request(who, ancestor, Base(own, ancestor)))
        /\ UNCHANGED <<age, table, obj, booted, frames, approved>>

(* processPendingReplacePrograms(): the list from first to last. *)
Kept(slots, offset, count) ==
    IF offset + count <= Len(slots) THEN SubSeq(slots, offset + 1, offset + count)
    ELSE [i \in 1 .. count |-> IF i <= Len(slots) THEN slots[i] ELSE NoName]
Replaced(o, request) ==
    IF o.gone THEN o
    ELSE [o EXCEPT !.program = request.program,
                   !.vars = Kept(@, request.offset, Len(Slots(request.program)))]
Swapped(o) ==
    LET after[i \in 0 .. Len(pending)] ==
            IF i = 0 THEN obj[o]
            ELSE IF pending[i].ob = o THEN Replaced(after[i - 1], pending[i]) ELSE after[i - 1]
    IN  after[Len(pending)]
ProcessPendingReplacePrograms ==
    /\ frames = <<>> /\ boot = "up" /\ pending # <<>>
    /\ obj' = [o \in Objects |-> [obj[o] EXCEPT !.program = Swapped(o).program, !.vars = Swapped(o).vars]]
    /\ pending' = <<>>
    /\ UNCHANGED <<age, table, booted, frames, approved>>

(* seteuid(0); seteuid(name), which asks valid_seteuid() in the master and *)
(* acts on the answer; export_uid(), to an object that has no effective id. *)
DropEuid(who) ==
    /\ obj' = [obj EXCEPT ![who].euid = NoName]
    /\ UNCHANGED <<age, table, booted, frames, pending, approved>>
AskEuid(who, name) ==
    /\ Deeper /\ master # NoObject
    /\ frames' = Push(Frame("seteuid", master, who, who, name))
    /\ UNCHANGED <<age, table, obj, booted, pending, approved>>
TakeEuid(who, name) ==   \* there is no master to ask yet
    /\ master = NoObject /\ approved' = approved \cup {name}
    /\ obj' = [obj EXCEPT ![who].euid = name]
    /\ UNCHANGED <<age, table, booted, frames, pending>>
EuidGranted ==
    /\ In("seteuid") /\ approved' = approved \cup {Top.arg}
    /\ obj' = [obj EXCEPT ![Top.ob].euid = Top.arg]
    /\ frames' = Rest /\ UNCHANGED <<age, table, booted, pending>>
EuidDenied ==
    /\ In("seteuid") /\ frames' = Rest
    /\ UNCHANGED <<age, table, obj, booted, pending, approved>>
ExportUid(who, o) ==
    /\ obj[who].euid # NoName /\ obj[o].euid = NoName
    /\ obj' = [obj EXCEPT ![o].uid = obj[who].euid]
    /\ UNCHANGED <<age, table, booted, frames, pending, approved>>

-----------------------------------------------------------------------------
(* Somebody rewrites or removes a file. *)
Rewrite(f) ==
    /\ Current # {} /\ age[f] < Len(Texts(f))
    /\ age' = [age EXCEPT ![f] = @ + 1]
    /\ UNCHANGED <<table, obj, booted, frames, pending, approved>>

Next ==
    \/ BootLoad
    \/ \E root \in Names \cup {NoName} : CaptureBootUids(root)
    \/ \E creator \in Names \cup {NoName} : AssignObjectUid(creator)
    \/ CreateReturns \/ CreateThrows \/ ReloadEnds
    \/ \E o \in 1 .. made : VirtualLoaded(o)
    \/ \E o \in Live : DestructObject(o) \/ ReloadObject(o)
    \/ VirtualRefused
    \/ \E who \in Current :
          \/ \E f \in Loadable : LoadObject(who, f) \/ LoadVirtual(who, f) \/ CloneObject(who, f)
          \/ \E f \in Files : ReplaceProgram(who, f)
          \/ \E name \in Names : AskEuid(who, name) \/ TakeEuid(who, name)
          \/ DropEuid(who)
          \/ \E o \in Live : ExportUid(who, o)
    \/ EuidGranted \/ EuidDenied
    \/ ProcessPendingReplacePrograms
    \/ \E f \in Files : Rewrite(f)

Spec == Init /\ [][Next]_vars

-----------------------------------------------------------------------------
(* An object that is found under the name it has is not destructed, however *)
(* objects are loaded, renamed by compile_object() and destructed while     *)
(* others are being made - save one that was destructed already when        *)
(* compile_object() handed it over: that one is found, for the table has no *)
(* second look at it.                                                       *)
FoundIsAlive == \A f \in Files :
    LET o == loaded[f] IN
    o # NoObject /\ obj[o].file = f /\ obj[o].gone => obj[o].late

(* Unless compile_object() handed it over, an object that is found has been *)
(* armed for reset() and clean_up(), or its create() is still running: one  *)
(* whose create() failed half way is not found.                             *)
FoundIsComplete == \A f \in Files :
    LET o == loaded[f] IN
    o # NoObject =>
      \/ obj[o].gone \/ obj[o].virtual \/ obj[o].armed
      \/ \E i \in DOMAIN frames : frames[i].op \in {"owner", "create"} /\ frames[i].ob = o

(* No object acts under a user id that nobody was let have: ids pass from  *)
(* loader to loaded, but none appears by itself.                           *)
EuidsApproved == \A o \in 1 .. made : obj[o].euid \in approved \cup {NoName}

(* The variables of an object are those of the program it runs, whatever   *)
(* was replaced, when, and how often.                                      *)
SlotsMatch == \A o \in 1 .. made : obj[o].vars = Slots(obj[o].program)

(* What the table is said to do: every blueprint, once made and until it   *)
(* is destructed, is the object its name finds.                            *)
BlueprintsKept == \A o \in 1 .. made :
    obj[o].armed /\ ~obj[o].gone /\ ~obj[o].clone /\ ~obj[o].virtual => loaded[obj[o].file] = o
=============================================================================
