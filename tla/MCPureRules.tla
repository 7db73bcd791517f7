---------------------------- MODULE MCPureRules ----------------------------
(***************************************************************************)
(* FireSchedule and MessageText for TLC.  Both are functions of an input:  *)
(* the one variable is an input, any input, and the invariants say what    *)
(* the functions make of it.                                               *)
(***************************************************************************)
EXTENDS FireSchedule, MessageText

CONSTANTS
    MaxPieces      \* bound: pieces of a text

ASSUME BoundAssumption == MaxPieces \in Nat

(* Offsets that move an event to the day before and to the day after.      *)
ZoneOffset == [z \in Zones |-> CASE z = "Africa/Tunis"     -> 1
                                 [] z = "Pacific/Midway"   -> -2
                                 [] OTHER                  -> 0]

LegacyOrder == <<"customer_name", "order_id">>

(* One of three neighbouring weekdays, over the end of the week, or none,  *)
(* or a number that is no weekday.                                         *)
DayChoices == (SUBSET {1, 3, 7}) \cup {{0}, {2, 8}, AllDays}

Forms ==
    [mode : {"", "instant"}, time : {Absent}, zone : {""}, days : {{}}, delay : {0}]
      \cup [mode : {"delayed"}, time : {Absent}, zone : {"", "Mars/Base"},
            days : {{}}, delay : -1 .. 2 * MinutesPerDay]
      \cup [mode : {"fixed"}, time : {Absent} \cup Minutes,
            zone : Zones \cup {"", "Mars/Base"}, days : DayChoices, delay : {0}]

(* Every minute of ten days.                                               *)
Events == 2 * MinutesPerDay .. 12 * MinutesPerDay - 1

Pieces == {Text, Slot(1), Slot(2)} \cup {Chip(k) : k \in Chips}

Inputs ==
    [kind : {"rule"}, form : Forms, now : Events]
      \cup [kind : {"text"}, text : BoundedSeq(Pieces, MaxPieces),
            source : Sources \cup {"unknown"}, event : SUBSET Chips]

VARIABLE probe

PureInit == probe \in Inputs
PureNext == UNCHANGED probe
PureSpec == PureInit /\ [][PureNext]_probe

-----------------------------------------------------------------------------

(* A form that is accepted sends when it says: through the columns and     *)
(* back, across midnight in the shop's zone and over the end of the week,  *)
(* the send is at the first moment from the event on that the form allows. *)
FiresWhenAsked ==
    probe.kind = "rule" /\ ParseSchedule(probe.form).kind # "refused"
      => Sent(probe.form, probe.now) = Asked(probe.form, probe.now)

(* A text of chips comes back from the store as it was written, with the   *)
(* example of each chip, so that saving an edit that changes nothing       *)
(* changes nothing.                                                        *)
EditRoundTrip ==
    probe.kind = "text" /\ Semantic(probe.text)
        /\ Accepted(probe.text, probe.source)
      => LET template == ParseTemplateForm(probe.text, probe.source)
         IN  /\ SemanticBodyForEdit(template) = probe.text
             /\ \A k \in ToSet(template.variables) :
                   TemplateExamples(template, k) = <<"example", k>>

(* When nothing is missing, the send gate lets the message through, every  *)
(* slot has a value, and what Meta shows the customer at the chips is what *)
(* the author put there exactly when no chip is repeated before the last   *)
(* new one: buildComponents sends a parameter for each occurrence, so an   *)
(* earlier repetition moves every value after it.                          *)
MessageShowsChips ==
    probe.kind = "text" /\ Semantic(probe.text)
        /\ Accepted(probe.text, probe.source)
      => LET template == ParseTemplateForm(probe.text, probe.source)
             vars     == BuildVariables(template, probe.event)
             shown    == ShownByMeta(template, BuildComponents(template, vars))
         IN  Missing(template, probe.event) = {} =>
                /\ GateOpen(template, vars)
                /\ Buildable(template, vars)
                /\ (\A i \in DOMAIN probe.text :
                        probe.text[i].kind = "chip" => shown[i] = probe.text[i].chip)
                     <=> NewChipsFirst(probe.text)

-----------------------------------------------------------------------------
(* Two comments' promises that the code does not keep.                     *)

(* The copy in the history is exactly what the customer received, for a    *)
(* text of chips with nothing missing (the comment of RenderTemplateBody). *)
SnapshotIsMessage ==
    probe.kind = "text" /\ Semantic(probe.text)
        /\ Accepted(probe.text, probe.source)
      => LET template == ParseTemplateForm(probe.text, probe.source)
             vars     == BuildVariables(template, probe.event)
         IN  Missing(template, probe.event) = {} =>
                ShownByMeta(template, BuildComponents(template, vars))
                  = RenderTemplateBody(template, vars)

(* The variables that pass the gate cover every placeholder of the         *)
(* template.                                                               *)
GateCovers ==
    probe.kind = "text" /\ Accepted(probe.text, probe.source)
      => LET template == ParseTemplateForm(probe.text, probe.source)
             vars     == BuildVariables(template, probe.event)
         IN  GateOpen(template, vars) => Buildable(template, vars)

=============================================================================
