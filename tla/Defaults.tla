------------------------------- MODULE Defaults -------------------------------
(***************************************************************************)
(* Promises with a default value (future.h): promise_with_default, which   *)
(* keeps it as a member, and promise_with_default_v and _vp, where it is a *)
(* parameter of the type.  Their destructor calls the promise with it.     *)
(*                                                                         *)
(* The default that was made for a future bears the name of the future.    *)
(***************************************************************************)
CONSTANTS
    Owed,       \* futures
    Holders,    \* promises, each for one lifetime
    nullOwner

ASSUME OwedAssumption ==
    /\ nullOwner \notin Owed
    /\ Owed \cap {"raw", "pending", "value", "dropped", "unspecified"} = {}

VARIABLES
    constant,   \* the default is a parameter of the type
    hlife,      \* lifetime of the promises
    holds,      \* promise::_owner
    def,        \* promise_with_default::def
    taking,     \* per promise: the one being assigned to it, or nullOwner
    given,      \* what each future was resolved with
    bare,       \* history: futures whose promise was made without a default of theirs
    moved,      \* ... those whose promise was assigned to another ...
    lost        \* ... and those whose promise was assigned to

defaultVars == <<constant, hlife, holds, def, taking, given, bare, moved, lost>>

Default == Owed \cup {"unspecified"}

DefaultsTypeOK ==
    /\ constant \in BOOLEAN
    /\ hlife \in [Holders -> {"raw", "alive", "dead"}]
    /\ holds \in [Holders -> Owed \cup {nullOwner}]
    /\ def \in [Holders -> Default]
    /\ taking \in [Holders -> Holders \cup {nullOwner}]
    /\ given \in [Owed -> Default \cup {"raw", "pending", "value", "dropped"}]
    /\ bare \subseteq Owed /\ moved \subseteq Owed /\ lost \subseteq Owed

DefaultsInit ==
    /\ constant \in BOOLEAN
    /\ hlife = [h \in Holders |-> "raw"]
    /\ holds = [h \in Holders |-> nullOwner]
    /\ def = [h \in Holders |-> "unspecified"]
    /\ taking = [h \in Holders |-> nullOwner]
    /\ given = [f \in Owed |-> "raw"]
    /\ bare = {} /\ moved = {} /\ lost = {}

-----------------------------------------------------------------------------
\* claim(), and what the future that was claimed is resolved with.
ClaimedBy(h) == IF holds[h] = nullOwner THEN {} ELSE {holds[h]}
ResolvedTo(h, how) == given' = [f \in Owed |-> IF f \in ClaimedBy(h) THEN how ELSE given[f]]

\* A value that was moved from is valid but unspecified; one of a simple type stays.
AfterMove(h) == {def[h], "unspecified"}

\* What the destructor calls the promise with: a constant is the default of any future.
DefaultOf(h) == IF constant THEN holds[h] ELSE def[h]

\* Nobody destroys or assigns a promise while another does; anybody may call it.
Quiet(h) ==
    /\ hlife[h] = "alive"
    /\ taking[h] = nullOwner /\ \A g \in Holders : taking[g] # h

\* The constructor with the default, and those inherited from promise, which leave def
\* default-initialised.
HoldDefault(h, f) ==
    /\ hlife[h] = "raw" /\ given[f] = "raw"
    /\ hlife' = [hlife EXCEPT ![h] = "alive"]
    /\ holds' = [holds EXCEPT ![h] = f]
    /\ \/ def' = [def EXCEPT ![h] = f] /\ UNCHANGED bare
       \/ def' = [def EXCEPT ![h] = "unspecified"] /\ bare' = bare \cup {f}
    /\ given' = [given EXCEPT ![f] = "pending"]
    /\ UNCHANGED <<constant, taking, moved, lost>>

\* set_value(args)
CallHolder(h) ==
    /\ hlife[h] = "alive"
    /\ ResolvedTo(h, "value")
    /\ holds' = [holds EXCEPT ![h] = nullOwner]
    /\ UNCHANGED <<constant, hlife, def, taking, bare, moved, lost>>

\* The move constructor: the future is claimed, and the default moved.
MoveHolder(g, h) ==
    /\ hlife[g] = "raw" /\ Quiet(h)
    /\ hlife' = [hlife EXCEPT ![g] = "alive"]
    /\ holds' = [holds EXCEPT ![g] = holds[h], ![h] = nullOwner]
    /\ \E left \in AfterMove(h) : def' = [def EXCEPT ![g] = def[h], ![h] = left]
    /\ UNCHANGED <<constant, taking, given, bare, moved, lost>>

\* The move assignment: the future of the target is dropped, without its default ...
AssignDrops(g, h) ==
    /\ g # h /\ Quiet(g) /\ Quiet(h)
    /\ taking' = [taking EXCEPT ![g] = h]
    /\ ResolvedTo(g, "dropped")
    /\ lost' = lost \cup ClaimedBy(g)
    /\ holds' = [holds EXCEPT ![g] = nullOwner]
    /\ UNCHANGED <<constant, hlife, def, bare, moved>>

\* ... that of the other is claimed, if nobody called it meanwhile; def is moved to itself.
AssignTakes(g) ==
    /\ taking[g] \in Holders
    /\ taking' = [taking EXCEPT ![g] = nullOwner]
    /\ LET h == taking[g]
       IN  /\ holds' = [holds EXCEPT ![g] = holds[h], ![h] = nullOwner]
           /\ moved' = moved \cup ClaimedBy(h)
    /\ \E left \in AfterMove(g) : def' = [def EXCEPT ![g] = left]
    /\ UNCHANGED <<constant, hlife, given, bare, lost>>

\* Variant: the destructor of promise is all there is.
DestroyHolder_Drops(h) ==
    /\ Quiet(h)
    /\ hlife' = [hlife EXCEPT ![h] = "dead"]
    /\ ResolvedTo(h, "dropped")
    /\ holds' = [holds EXCEPT ![h] = nullOwner]
    /\ UNCHANGED <<constant, def, taking, bare, moved, lost>>

\* The destructor: the promise is called with the default.
DestroyHolder(h) ==
    /\ Quiet(h)
    /\ hlife' = [hlife EXCEPT ![h] = "dead"]
    /\ ResolvedTo(h, DefaultOf(h))
    /\ holds' = [holds EXCEPT ![h] = nullOwner]
    /\ UNCHANGED <<constant, def, taking, bare, moved, lost>>

DefaultsNext ==
    \/ \E h \in Holders, f \in Owed : HoldDefault(h, f)
    \/ \E h \in Holders : CallHolder(h) \/ AssignTakes(h) \/ DestroyHolder(h)
    \/ \E g, h \in Holders : MoveHolder(g, h) \/ AssignDrops(g, h)

DefaultsSpec == DefaultsInit /\ [][DefaultsNext]_defaultVars

-----------------------------------------------------------------------------
(* Properties *)

\* "If the promise is destroyed unresolved, the default value is set to the future": no
\* future is left without a value, and none has the default of another, however promises
\* are moved and called - except for what a move assignment does, which drops the future
\* of the promise that it overwrites and leaves the default of the other behind, and for a
\* promise that was made without a default, whose future gets that of no other either.
DefaultReaches == \A f \in Owed :
    /\ given[f] = "dropped" => f \in lost
    /\ given[f] \in Default =>
          \/ given[f] = f
          \/ ~constant /\ (f \in moved \/ (f \in bare /\ given[f] = "unspecified"))
==============================================================================
