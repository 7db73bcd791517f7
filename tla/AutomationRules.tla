-------------------------- MODULE AutomationRules --------------------------
(***************************************************************************)
(* The automations of a shop: which template a trigger sends, and whether  *)
(* it is switched on (automations.go, automations_handlers.go).            *)
(*                                                                         *)
(* A request of an operator looks up what its form names, the automation   *)
(* and the template, and then writes with one statement under the          *)
(* automation's id.  What it looks up cannot turn stale in a way that      *)
(* matters: a template's row is never removed (a deletion is a state), and *)
(* the statement itself finds no row when the automation has gone.  Each   *)
(* request is therefore one step here, at its statement, and an id may be  *)
(* used again, as nothing remembers the ids of removed automations.        *)
(*                                                                         *)
(* Names, descriptions and the check of the form are left out: a form that *)
(* is not accepted changes nothing.  The send rule is FireSchedule.        *)
(***************************************************************************)

CONSTANTS
    RuleIds,       \* ids of automations
    Triggers,      \* (shop, event source, status)
    Catalog,       \* templates
    NoTemplate     \* the id that names no template

VARIABLE rule      \* the table automations

Rule == [state    : {"none", "on", "off"},
         trigger  : Triggers,
         template : Catalog \cup {NoTemplate}]

Blank == [state |-> "none", trigger |-> CHOOSE g \in Triggers : TRUE,
          template |-> NoTemplate]

StoredIn(table, a) == table[a].state \in {"on", "off"}
Stored(a)          == StoredIn(rule, a)

(* The unique index on (shop_id, event_source, order_status).              *)
Taken(g, a) == \E b \in RuleIds \ {a} : Stored(b) /\ rule[b].trigger = g

(* The automations handleTemplateDelete finds on a template.               *)
UsersOf(table, t) ==
    {a \in RuleIds : StoredIn(table, a) /\ table[a].template = t}

(* Mutated form: paused automations are overlooked.                        *)
AttachedEnabled(t) == {a \in UsersOf(rule, t) : rule[a].state = "on"}
AttachedTo(t)      == UsersOf(rule, t)

RulesInit == rule = [a \in RuleIds |-> Blank]

-----------------------------------------------------------------------------

(* ON CONFLICT DO NOTHING; an automation is born enabled.                  *)
Create(a, g, t) ==
    /\ rule[a].state = "none"
    /\ ~Taken(g, a)
    /\ rule' = [rule EXCEPT ![a] =
                  [state |-> "on", trigger |-> g, template |-> t]]

(* Onto a used trigger nothing happens (23505).                            *)
Update(a, g, t) ==
    /\ Stored(a)
    /\ ~Taken(g, a)
    /\ rule' = [rule EXCEPT ![a].trigger = g, ![a].template = t]

(* The form says which; the switch it is at already is no change.          *)
SetEnabled(a, enabled) ==
    /\ Stored(a)
    /\ enabled # (rule[a].state = "on")
    /\ rule' = [rule EXCEPT ![a].state = IF enabled THEN "on" ELSE "off"]

Delete(a) ==
    /\ Stored(a)
    /\ rule' = [rule EXCEPT ![a] = Blank]

=============================================================================
