----------------------------- MODULE Abilities -----------------------------
(***************************************************************************)
(* What the permissions of a principal's roles allow (src/modules/acl/     *)
(* abilities): the rules built from permission rows, CASL's answer to a    *)
(* check of one record and of a subject in general, and the filter that    *)
(* list queries apply instead of checking record by record.                *)
(*                                                                         *)
(* A record is a function from columns to values.  The condition on a      *)
(* column is the set of values it admits, and whether it is written as one *)
(* value (plain) or as a query.                                            *)
(***************************************************************************)
EXTENDS Naturals

CONSTANT Me     \* the text ${userId}

Condition(Values) ==
  [plain : {TRUE}, values : {{v} : v \in Values}]
    \cup [plain : {FALSE}, values : SUBSET Values]

Is(value) == [plain |-> TRUE, values |-> {value}]

\* What an ability is made of; the fields of a permission row that decide nothing
\* (reason, the dates) are left out.
Rule(action, subject, conditions, inverted) ==
  [action |-> action, subject |-> subject, conditions |-> conditions,
   inverted |-> inverted]

Always == [c \in {} |-> {}]

Everything == <<Rule("manage", "all", Always, FALSE)>>

\* interpolateConditions: a nested placeholder stays, and matches nothing.
Interpolate(conditions, id) ==
  [c \in DOMAIN conditions |-> IF conditions[c] = Is(Me) THEN Is(id)
                                                         ELSE conditions[c]]

\* createForUser, without the bypass: the rules stand at the positions of their rows, and
\* the rows in the order the roles list them.  A grant that is limited to fields grants
\* nothing; a refusal refuses the whole record.
CreateForUser(permissions, id) ==
  [i \in {k \in DOMAIN permissions : permissions[k].inverted \/ ~permissions[k].fieldLimited} |->
     Rule(permissions[i].action, permissions[i].subject,
          Interpolate(permissions[i].conditions, id), permissions[i].inverted)]

-----------------------------------------------------------------------------
(* CASL: of two rules, the one at the higher position has priority. *)

\* The rules about an action on a subject.
RulesFor(rules, action, subject) ==
  [i \in {k \in DOMAIN rules : /\ rules[k].action \in {action, "manage"}
                               /\ rules[k].subject \in {subject, "all"}} |-> rules[i]]

Above(rules, i) == {j \in DOMAIN rules : j > i}

Matches(conditions, record) ==
  \A c \in DOMAIN conditions :
    c \in DOMAIN record /\ record[c] \in conditions[c].values

\* The first rule that matches the record decides.
CanRecord(rules, record) ==
  \E i \in DOMAIN rules :
    /\ ~rules[i].inverted
    /\ Matches(rules[i].conditions, record)
    /\ \A j \in Above(rules, i) : ~Matches(rules[j].conditions, record)

\* A check of the subject in general asks whether some record may pass: a refusal
\* counts only when it has no conditions.
CanSome(rules) ==
  \E i \in DOMAIN rules :
    /\ ~rules[i].inverted
    /\ \A j \in Above(rules, i) : rules[j].inverted => rules[j].conditions # Always

-----------------------------------------------------------------------------
(* recordScope. *)

\* Mutant: a refusal is skipped, and the rules below it still grant.
PastRefusals(rules) == {i \in DOMAIN rules : ~rules[i].inverted}

\* The grants above the first refusal.
Unrestricted(rules) ==
  {i \in DOMAIN rules : \A j \in {i} \cup Above(rules, i) : ~rules[j].inverted}

Exact(conditions, columns) ==
  /\ DOMAIN conditions # {}
  /\ \A c \in DOMAIN conditions : c \in columns /\ conditions[c].plain

RecordScope(rules, columns) ==
  LET grants == Unrestricted(rules)
  IN  [all   |-> \E i \in grants : rules[i].conditions = Always,
       anyOf |-> {rules[i].conditions :
                    i \in {k \in grants : Exact(rules[k].conditions, columns)}}]

\* The filter as the repositories turn it into SQL.
InScope(scope, record) ==
  scope.all \/ \E conditions \in scope.anyOf : Matches(conditions, record)

\* What a list shows is readable on its own (record-scope.ts: anything that does not
\* translate exactly fails closed).
ShowsOnlyReadable(rules, columns, record) ==
  InScope(RecordScope(rules, columns), record) => CanRecord(rules, record)
=============================================================================
