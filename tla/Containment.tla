---------------------------- MODULE Containment ----------------------------
(***************************************************************************)
(* Who is inside whom, and what that lets a player do: move_object(),      *)
(* set_environment(), destruct(), the init() calls a move makes, and the   *)
(* action tables that add_action() fills and dispatchCommand() walks.      *)
(* init() bodies and handlers are LPC code that may do all of this again:  *)
(* the moves and commands under way are a stack.                           *)
(*                                                                         *)
(* Verbs are left out: an action is its owner, and a command is tried on   *)
(* any part of the table.  The order of an inventory or a table is left    *)
(* open.                                                                   *)
(***************************************************************************)
EXTENDS Integers, Sequences

CONSTANTS Objects, NoObject,
          SetEnvironment,  \* LPC code calls set_environment() itself
          Throws,          \* init() and handlers may fail
          Enables,         \* objects that call enable_commands() and disable_commands()
          Verbs,           \* objects that call add_action() and remove_action()
          MaxDepth         \* bound: moves and commands under way

ASSUME ContainmentAssumption ==
    /\ NoObject \notin Objects
    /\ SetEnvironment \in BOOLEAN /\ Throws \in BOOLEAN
    /\ Enables \subseteq Objects /\ Verbs \subseteq Objects
    /\ MaxDepth \in Nat

VARIABLES plain,       \* what the mudlib's code does, fixed at boot: objects are moved by
                       \* move_object() only, init() does not fail, and commands stay
                       \* enabled or disabled
          env,         \* environment_
          inv,         \* inventory_
          destructed,
          enabled,     \* objects with commandsEnabled()
          actions,     \* the owners of an object's actions_
          stack,       \* calls of moveObject() and dispatchCommand() under way
          met          \* history: <<a, b>> when a's init() ran for b since they got together

vars == <<plain, env, inv, destructed, enabled, actions, stack, met>>

Pairs == Objects \X Objects
NoCall == <<NoObject, NoObject>>

(* left: the calls <<callee, command giver>> still to make; call: the one  *)
(* that is running; looked: the occupants have been looked up.             *)
Frames ==
    [kind : {"move", "command"}, item : Objects, dest : Objects,
     looked : BOOLEAN, left : SUBSET Pairs, call : Pairs \cup {NoCall}]

TypeOK ==
    /\ plain \in BOOLEAN
    /\ env \in [Objects -> Objects \cup {NoObject}]
    /\ inv \in [Objects -> SUBSET Objects]
    /\ destructed \subseteq Objects
    /\ enabled \subseteq Objects
    /\ actions \in [Objects -> SUBSET Objects]
    /\ stack \in Seq(Frames)
    /\ met \subseteq Pairs

Init ==
    /\ plain \in BOOLEAN
    /\ env = [o \in Objects |-> NoObject]
    /\ inv = [o \in Objects |-> {}]
    /\ destructed = {}
    /\ enabled \in SUBSET Objects
    /\ actions = [o \in Objects |-> {}]
    /\ stack = <<>>
    /\ met = {}

-----------------------------------------------------------------------------
Top == stack[Len(stack)]
Below == SubSeq(stack, 1, Len(stack) - 1)
Put(f) == Below \o <<f>>

(* LPC code runs: an init() or a handler, or anything else the driver      *)
(* calls while no move and no command is under way.                        *)
Running == IF stack = <<>> THEN TRUE ELSE Top.call # NoCall

(* The second object is around the first one, or inside it. *)
Together(p) == env[p[2]] # NoObject /\ env[p[2]] \in {p[1], env[p[1]]}

(* The writes of a move: out of the old environment, into the new. *)
Unlinked(item) == [o \in Objects |-> IF o = env[item] THEN inv[o] \ {item} ELSE inv[o]]

\* Mutant of Relink: the old environment keeps the item.
RelinkKeeps(item, dest) ==
    /\ inv' = [inv EXCEPT ![dest] = @ \cup {item}]
    /\ env' = [env EXCEPT ![item] = dest]
    /\ met' = {p \in met : Together(p)'}

Relink(item, dest) ==
    /\ inv' = [Unlinked(item) EXCEPT ![dest] = @ \cup {item}]
    /\ env' = [env EXCEPT ![item] = dest]
    /\ met' = {p \in met : Together(p)'}

(* moveObject() up to its first init().  The item is the current object of *)
(* move_object(), which may have destructed itself.                        *)
Move(item, dest) ==
    /\ Running /\ Len(stack) < MaxDepth  \* bound
    /\ item # dest /\ item \notin destructed /\ dest \notin destructed
    /\ Relink(item, dest)
    /\ stack' = Append(stack, [kind |-> "move", item |-> item, dest |-> dest, looked |-> FALSE,
                               left |-> {<<dest, item>>}, call |-> NoCall])
    /\ UNCHANGED <<destructed, enabled, actions>>

\* Mutant of Exchange: the newcomer is not introduced to those present.
ExchangeOneWay(item, occupants) == {<<ob, item>> : ob \in occupants \ {item}}

(* Occupants and newcomer hand each other their actions. *)
Exchange(item, occupants) ==
    {<<item, ob>> : ob \in occupants \ {item}} \cup {<<ob, item>> : ob \in occupants \ {item}}

(* The occupants are copied after the first init() has returned. *)
LookAround ==
    /\ stack # <<>> /\ Top.call = NoCall
    /\ Top.left = {} /\ ~Top.looked
    /\ stack' = Put([Top EXCEPT !.looked = TRUE, !.left = Exchange(Top.item, inv[Top.dest])])
    /\ UNCHANGED <<env, inv, destructed, enabled, actions, met>>

(* The next call of the innermost move or command.  init() is called only  *)
(* for a giver with commands enabled; callFunction() does nothing on a     *)
(* destructed object.                                                      *)
Calls(c) ==
    /\ stack # <<>> /\ Top.call = NoCall /\ c \in Top.left
    /\ IF (Top.kind = "move" => c[2] \in enabled) /\ c[1] \notin destructed
       THEN /\ stack' = Put([Top EXCEPT !.left = @ \ {c}, !.call = c])
            /\ met' = IF Top.kind = "move" /\ Together(c) THEN met \cup {c} ELSE met
       ELSE /\ stack' = Put([Top EXCEPT !.left = @ \ {c}])
            /\ UNCHANGED met
    /\ UNCHANGED <<env, inv, destructed, enabled, actions>>

(* init() returns, or a handler that does not claim the command. *)
Returns ==
    /\ stack # <<>> /\ Top.call # NoCall
    /\ stack' = Put([Top EXCEPT !.call = NoCall])
    /\ UNCHANGED <<env, inv, destructed, enabled, actions, met>>

(* A handler claims the command. *)
Claims ==
    /\ stack # <<>> /\ Top.kind = "command" /\ Top.call # NoCall
    /\ stack' = Below
    /\ UNCHANGED <<env, inv, destructed, enabled, actions, met>>

(* A body fails: nothing in moveObject() or dispatchCommand() catches it. *)
Fails ==
    /\ Throws /\ ~plain
    /\ stack # <<>> /\ Top.call # NoCall
    /\ stack' = Below
    /\ UNCHANGED <<env, inv, destructed, enabled, actions, met>>

Ends ==
    /\ stack # <<>> /\ Top.call = NoCall
    /\ Top.left = {} /\ Top.looked
    /\ stack' = Below
    /\ UNCHANGED <<env, inv, destructed, enabled, actions, met>>

(* dispatchCommand(): a copy of the part of g's table that the verb        *)
(* matches.                                                                *)
Command(g, matching) ==
    /\ Running /\ Len(stack) < MaxDepth  \* bound
    /\ g \notin destructed
    /\ matching \subseteq actions[g]
    /\ stack' = Append(stack, [kind |-> "command", item |-> g, dest |-> g, looked |-> TRUE,
                               left |-> {<<o, g>> : o \in matching}, call |-> NoCall])
    /\ UNCHANGED <<env, inv, destructed, enabled, actions, met>>

-----------------------------------------------------------------------------
(* set_environment(), which has no guard.  With an H_MOVE_OBJECT hook      *)
(* installed it is how move_object() moves, too.                           *)
Reparent(item, dest) ==
    /\ SetEnvironment /\ ~plain /\ Running
    /\ Relink(item, dest)
    /\ UNCHANGED <<destructed, enabled, actions, stack>>

Unparent(item) ==
    /\ SetEnvironment /\ ~plain /\ Running
    /\ inv' = Unlinked(item)
    /\ env' = [env EXCEPT ![item] = NoObject]
    /\ met' = {p \in met : Together(p)'}
    /\ UNCHANGED <<destructed, enabled, actions, stack>>

(* destruct(): what is inside stays inside. *)
Destruct(o) ==
    /\ Running /\ o \notin destructed
    /\ destructed' = destructed \cup {o}
    /\ inv' = Unlinked(o)
    /\ env' = [env EXCEPT ![o] = NoObject]
    /\ met' = {p \in met : Together(p)'}
    /\ UNCHANGED <<enabled, actions, stack>>

(* The last reference to a destructed object goes: environment() of what   *)
(* was inside is a weak pointer that has expired.                          *)
Free(o) ==
    /\ o \in destructed
    /\ \A i \in DOMAIN stack : o \notin {stack[i].item, stack[i].dest}
    /\ inv' = [inv EXCEPT ![o] = {}]
    /\ env' = [x \in Objects |-> IF env[x] = o THEN NoObject ELSE env[x]]
    /\ met' = {p \in met : Together(p)'}
    /\ UNCHANGED <<destructed, enabled, actions, stack>>

(* enable_commands(), disable_commands(). *)
Enable(o) ==
    /\ Running /\ ~plain /\ o \in Enables
    /\ enabled' = enabled \cup {o}
    /\ UNCHANGED <<env, inv, destructed, actions, stack, met>>

Disable(o) ==
    /\ Running /\ ~plain /\ o \in Enables
    /\ enabled' = enabled \ {o}
    /\ UNCHANGED <<env, inv, destructed, actions, stack, met>>

(* The command giver: of the innermost call, or of a connection. *)
Giver(g) == Running /\ IF stack = <<>> THEN TRUE ELSE g = Top.call[2]

Near(o, g) ==
    \/ o = g \/ env[o] = g \/ env[g] = o
    \/ env[o] = env[g] /\ env[o] # NoObject

(* add_action() by o. *)
AddAction(o, g) ==
    /\ o \in Verbs /\ Giver(g) /\ Near(o, g)
    /\ actions' = [actions EXCEPT ![g] = @ \cup {o}]
    /\ UNCHANGED <<env, inv, destructed, enabled, stack, met>>

(* remove_action() by o, when it is the last entry of o.  One that leaves   *)
(* another entry of o changes nothing here.                                *)
RemoveAction(o, g) ==
    /\ o \in Verbs /\ Giver(g) /\ o \in actions[g]
    /\ actions' = [actions EXCEPT ![g] = @ \ {o}]
    /\ UNCHANGED <<env, inv, destructed, enabled, stack, met>>

-----------------------------------------------------------------------------
Efun ==
    \E o \in Objects :
        \/ Destruct(o) \/ Free(o) \/ Enable(o) \/ Disable(o) \/ Unparent(o)
        \/ \E p \in Objects : Move(o, p) \/ Reparent(o, p) \/ AddAction(o, p) \/ RemoveAction(o, p)
        \/ \E matching \in SUBSET actions[o] : Command(o, matching)

Driver == LookAround \/ Returns \/ Claims \/ Fails \/ Ends \/ \E c \in Pairs : Calls(c)

Step == Efun \/ Driver

Next == Step /\ UNCHANGED plain

Spec == Init /\ [][Next]_vars

-----------------------------------------------------------------------------
(* environment() and inventory() tell the same story whatever moves,       *)
(* destructs and frees nest: an object is inside exactly the one that is   *)
(* its environment.  restore_state(), which sets both links of a dumped    *)
(* world without looking at the present one, is no operation of this       *)
(* module.                                                                 *)
LinksAgree == \A o, e \in Objects : o \in inv[e] <=> env[o] = e

(* VM::moveObject: a destructed object is never "relinked back into a live *)
(* room's inventory, undoing the unlink".                                  *)
StaysOut == \A o \in destructed : env[o] = NoObject

(* When no move is under way, those who stand in one environment have had  *)
(* init() called for each other, and a room for everyone in it: nobody     *)
(* with commands enabled lacks the actions of what is around.              *)
AllIntroduced ==
    stack = <<>> =>
        \A a \in Objects \ destructed, b \in enabled \ destructed :
            a # b /\ Together(<<a, b>>) => <<a, b>> \in met

(* In a plain mudlib so it is, however the init() bodies move and destruct *)
(* objects while a move is under way.                                      *)
EveryoneIntroduced == plain => AllIntroduced

(* set_light() walks "all the way to the root regardless of how many       *)
(* levels up that is": following environment() from any object ends.       *)
EnvironmentsEnd ==
    \A S \in (SUBSET Objects) \ {{}} : \E o \in S : env[o] \notin S
=============================================================================
