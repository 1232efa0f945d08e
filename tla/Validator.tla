----------------------------- MODULE Validator -----------------------------
(***************************************************************************)
(* Validators of src/src/validation/index.ts that share their rules: one   *)
(* after the other is made, told fields and asked to validate.  A value is *)
(* absent (null, undefined or empty), or a string of which is known how    *)
(* long it is and where the one match of the pattern in it starts.         *)
(***************************************************************************)
EXTENDS Integers

CONSTANTS
    Field,
    MaxLen,     \* bound: length of a string
    Limit       \* the n of minLength(n)

LimitAssumption == MaxLen \in Nat /\ Limit \in Nat

NoMatch == -1
Value == {v \in [length : 0 .. MaxLen, at : {NoMatch} \cup 0 .. MaxLen - 1] :
              v.at < v.length}
Rule == {"required", "minLength", "pattern"}
Flag == {"none", "g", "y"}    \* with both g and y, y rules

VARIABLES
    flag,        \* the flag of the regular expression given to pattern()
    lastIndex,   \* re.lastIndex, which a global or sticky expression keeps
    errors,      \* errors[f]: the rules of which there is a message for f
    invalid      \* history: for each field the rules that the last value
                 \* given for it that broke one broke

vars == <<flag, lastIndex, errors, invalid>>

Clean == [f \in Field |-> {}]

Init ==
    /\ flag = "none" /\ lastIndex = 0
    /\ errors = Clean /\ invalid = Clean

-----------------------------------------------------------------------------
Absent(v) == v.length = 0

(* re.test(v): a global expression looks from lastIndex on, a sticky one    *)
(* there and nowhere else.  Both put lastIndex behind the match, which is  *)
(* the rest of the string, or at 0.                                        *)
Matches(v) ==
    /\ v.at # NoMatch
    /\ IF flag = "y" THEN lastIndex = v.at ELSE lastIndex <= v.at

AlwaysBehind(v) == IF Matches(v) THEN v.length ELSE 0    \* [any remembers]
LastIndexAfter(v) == IF flag # "none" /\ Matches(v) THEN v.length ELSE 0

(* The rules but required() let pass what is absent, untested.             *)
Breaks(v, rule) ==
    CASE rule = "required"  -> Absent(v)
      [] rule = "minLength" -> ~Absent(v) /\ v.length < Limit
      [] rule = "pattern"   -> ~Absent(v) /\ ~Matches(v)

FieldErrors(v, rules) == {rule \in rules : Breaks(v, rule)}

(* What a rule without memory says of v.                                   *)
Broken(v, rules) ==
    {rule \in rules :
        IF rule = "pattern" THEN ~Absent(v) /\ v.at = NoMatch ELSE Breaks(v, rule)}

With(map, f, broken) == IF broken = {} THEN map ELSE [map EXCEPT ![f] = broken]

(* The rules are made anew, with an expression that has a flag or none,    *)
(* and so is the validator.                                                *)
NewRules ==
    /\ flag' \in Flag /\ lastIndex' = 0
    /\ errors' = Clean /\ invalid' = Clean

NewValidator ==
    /\ errors' = Clean /\ invalid' = Clean
    /\ UNCHANGED <<flag, lastIndex>>

FieldCall(f, v, rules) ==
    /\ errors' = With(errors, f, FieldErrors(v, rules))
    /\ invalid' = With(invalid, f, Broken(v, rules))
    /\ lastIndex' = IF "pattern" \in rules /\ ~Absent(v)
                      THEN LastIndexAfter(v) ELSE lastIndex
    /\ UNCHANGED flag

Next ==
    \/ NewRules \/ NewValidator
    \/ \E f \in Field, v \in Value, rules \in SUBSET Rule : FieldCall(f, v, rules)

Spec == Init /\ [][Next]_vars

-----------------------------------------------------------------------------
TypeOK ==
    /\ flag \in Flag /\ lastIndex \in 0 .. MaxLen
    /\ errors \in [Field -> SUBSET Rule] /\ invalid \in [Field -> SUBSET Rule]

(* Without g and y the expression remembers nothing.                       *)
Memoryless == flag = "none" => lastIndex = 0

(* validate() throws when a value broke a rule, and for no other reason if *)
(* the pattern is neither global nor sticky: these remember where their    *)
(* last match ended, and refuse a good value for what another field or     *)
(* another validator held (and a sticky one refuses a match that does not  *)
(* start there).  The messages are then those of the last bad value.       *)
VerdictTrue ==
    /\ \A f \in Field : invalid[f] # {} => errors[f] # {}
    /\ flag = "none" => errors = invalid
=============================================================================
