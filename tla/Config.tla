------------------------------- MODULE Config -------------------------------
(***************************************************************************)
(* loadConfig() of src/src/config/index.ts: one call, over a class whose   *)
(* fields carry @EnvVar.  What an environment variable or a default holds  *)
(* is known only by whether transform() or coerce() can make a value of it.*)
(***************************************************************************)
EXTENDS Integers, SequencesExt

CONSTANT NFields     \* properties with @EnvVar, those of a base class too

FieldsAssumption == NFields \in Nat

Field == 1 .. NFields
Raw == {"unset", "empty", "good", "bad"}

VARIABLES
    meta,       \* meta[f]: how f was decorated, and where
    env,        \* env[f]: process.env[opts.name]
    next,       \* the field that the loop looks at
    value,      \* value[f]: where the value of the property comes from
    errors,     \* fields with an error, in order
    outcome     \* "none", "loading", "returned", "thrown"

vars == <<meta, env, next, value, errors, outcome>>

Meta == [default : {"none", "good", "bad"}, required : BOOLEAN, inherited : BOOLEAN]

Init ==
    /\ meta = [f \in Field |-> [default |-> "none", required |-> FALSE,
                                inherited |-> FALSE]]
    /\ env = [f \in Field |-> "unset"]
    /\ next = 1 /\ value = [f \in Field |-> "initial"]
    /\ errors = <<>> /\ outcome = "none"

-----------------------------------------------------------------------------
(* loadConfig() of some class, in some environment.                        *)
Call ==
    /\ outcome = "none"
    /\ meta' \in [Field -> Meta] /\ env' \in [Field -> Raw]
    /\ outcome' = "loading"
    /\ UNCHANGED <<next, value, errors>>

(* getOwnMetadata(): what the decorators of a base class noted is not seen. *)
Own(f) == ~meta[f].inherited

(* An empty variable counts as one that is not set.                        *)
Unset(f) == env[f] \in {"unset", "empty"}
RawOf(f) == IF Unset(f) THEN meta[f].default ELSE env[f]

Error(f) == errors' = Append(errors, f) /\ UNCHANGED value

(* One error does not end the loop.                                        *)
StopsAtError(f) == NFields + 1                       \* [throws the first one]
AfterError(f) == f + 1

(* One round of the loop: nothing, an error, or a value.                   *)
Look(f) ==
    /\ outcome = "loading" /\ next = f /\ f <= NFields
    /\ CASE ~Own(f) \/ (RawOf(f) = "none" /\ ~meta[f].required) ->
              next' = f + 1 /\ UNCHANGED <<value, errors>>
         [] Own(f) /\ (RawOf(f) = "bad" \/ (RawOf(f) = "none" /\ meta[f].required)) ->
              next' = AfterError(f) /\ Error(f)
         [] Own(f) /\ RawOf(f) = "good" ->
              /\ next' = f + 1
              /\ value' = [value EXCEPT ![f] = IF Unset(f) THEN "default" ELSE "env"]
              /\ UNCHANGED errors
    /\ UNCHANGED <<meta, env, outcome>>

End ==
    /\ outcome = "loading" /\ next > NFields
    /\ outcome' = IF errors = <<>> THEN "returned" ELSE "thrown"
    /\ UNCHANGED <<meta, env, next, value, errors>>

Next == Call \/ End \/ \E f \in Field : Look(f)

Spec == Init /\ [][Next]_vars

-----------------------------------------------------------------------------
TypeOK ==
    /\ meta \in [Field -> Meta] /\ env \in [Field -> Raw]
    /\ next \in 1 .. NFields + 1
    /\ value \in [Field -> {"initial", "default", "env"}]
    /\ errors \in Seq(Field)
    /\ outcome \in {"none", "loading", "returned", "thrown"}

Wrong(f) ==
    /\ ~meta[f].inherited
    /\ \/ env[f] = "bad"
       \/ env[f] \in {"unset", "empty"}
          /\ (meta[f].default = "bad" \/ (meta[f].default = "none" /\ meta[f].required))

Ascending == \A i \in 1 .. Len(errors) - 1 : errors[i] < errors[i + 1]
KeepsInitial(f) ==
    \/ meta[f].inherited
    \/ env[f] \in {"unset", "empty"} /\ meta[f].default = "none"

(* The loop is right about the fields behind it: it has noted those that   *)
(* are wrong and given the others what they are to have.                   *)
LoopTrue ==
    /\ outcome = "none" => next = 1 /\ errors = <<>>
    /\ outcome \in {"returned", "thrown"} => next = NFields + 1
    /\ outcome = "returned" => errors = <<>>
    /\ ToSet(errors) = {f \in Field : f < next /\ Wrong(f)}
    /\ Ascending
    /\ \A f \in Field : value[f] = "initial" <=> f >= next \/ Wrong(f) \/ KeepsInitial(f)

(* A ConfigError names everything that is wrong, once and in the order of  *)
(* the fields, and an instance is returned only when nothing is; it then   *)
(* has a value for every field that is required or that the environment    *)
(* sets, those of a base class apart, which keep what the constructor gave. *)
AllOrNothing ==
    /\ outcome = "thrown" =>
          /\ ToSet(errors) = {f \in Field : Wrong(f)}
          /\ Ascending
    /\ outcome = "returned" =>
          \A f \in Field : ~Wrong(f) /\ (value[f] = "initial" <=> KeepsInitial(f))
=============================================================================
