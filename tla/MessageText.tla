----------------------------- MODULE MessageText -----------------------------
(***************************************************************************)
(* The text of a template and the message made from it (variables.go,      *)
(* templates.go, send.go, templates_handlers.go, buildVariables).          *)
(*                                                                         *)
(* The author writes text and variables: chips, which name a piece of the  *)
(* order, or bare numbers, in older templates.  Meta is given numbered     *)
(* slots; the chips are kept beside them, in slot order.  At an event the  *)
(* slots are filled from the order.                                        *)
(*                                                                         *)
(* A text is a sequence of pieces.  A piece of text stands for as many     *)
(* words as Meta wants per variable.  Lengths, punctuation and what is not *)
(* a well-formed variable are left out; so are headers and buttons.        *)
(***************************************************************************)
EXTENDS Naturals, FiniteSets, SequencesExt

CONSTANTS
    Chips,         \* variables the editor offers
    DriverChips,   \* those only a delivery can fill
    Legacy,        \* chips of the first slots in an older template, in order
    Dash           \* the neutral filler

NoChip == "none"

ASSUME TextAssumption ==
    /\ DriverChips \subseteq Chips
    /\ Legacy \in Seq(Chips)
    /\ {Dash, NoChip} \cap Chips = {}

Text    == [kind |-> "text", chip |-> NoChip, slot |-> 0]
Chip(k) == [kind |-> "chip", chip |-> k, slot |-> 0]
Slot(n) == [kind |-> "slot", chip |-> NoChip, slot |-> n]

Sources == {"converty", "delivery", "any"}

NormalizeSource(source) == IF source \in Sources THEN source ELSE "any"

TokenAllowed(source, k) == source = "converty" => k \notin DriverChips

DefaultTokenForPosition(n) == IF n \in DOMAIN Legacy THEN Legacy[n] ELSE NoChip

-----------------------------------------------------------------------------
(* From the editor to the stored template.                                 *)

(* The chips in the order they first appear in, piece by piece.            *)
TokensOf(text) ==
    LET seen[n \in 0 .. Len(text)] ==
          IF n = 0 THEN <<>>
          ELSE LET before == seen[n - 1]
               IN  IF text[n].kind = "chip" /\ ~Contains(before, text[n].chip)
                   THEN Append(before, text[n].chip) ELSE before
    IN  seen[Len(text)]

PositionIn(tokens, k) == CHOOSE i \in DOMAIN tokens : tokens[i] = k

(* Mutated form: every chip gets a slot of its own.                        *)
TokenizeAnew(text) ==
    [i \in DOMAIN text |->
       IF text[i].kind # "chip" THEN text[i]
       ELSE Slot(Cardinality({j \in 1 .. i : text[j].kind = "chip"}))]

(* TokenizeTemplateBody: one slot per chip, used again where the chip is.  *)
Tokenize(text) ==
    LET tokens == TokensOf(text)
    IN  [i \in DOMAIN text |->
           IF text[i].kind = "chip" THEN Slot(PositionIn(tokens, text[i].chip))
           ELSE text[i]]

(* The numbers of the slots, in the order of the text.                     *)
PlaceholderNumbers(body) ==
    LET numbers[n \in 0 .. Len(body)] ==
          IF n = 0 THEN <<>>
          ELSE IF body[n].kind = "slot" THEN Append(numbers[n - 1], body[n].slot)
          ELSE numbers[n - 1]
    IN  numbers[Len(body)]

(* The count of the send gate.                                             *)
CountVariables(body) == Cardinality(ToSet(PlaceholderNumbers(body)))

(* Words before the first variable, after the last, and enough of them.    *)
ValidBody(body) ==
    LET texts == Cardinality({i \in DOMAIN body : body[i].kind = "text"})
    IN  PlaceholderNumbers(body) # <<>> =>
          /\ Head(body).kind = "text"
          /\ Last(body).kind = "text"
          /\ texts >= Len(PlaceholderNumbers(body))

(* The example values: of each chip, or of each number as it appears.      *)
ExamplesFor(body, tokens) ==
    IF tokens # <<>> THEN [i \in DOMAIN tokens |-> <<"example", tokens[i]>>]
    ELSE [i \in DOMAIN PlaceholderNumbers(body) |->
            <<"example", PlaceholderNumbers(body)[i]>>]

(* parseTemplateForm; the author has filled in every example.              *)
Accepted(text, source) ==
    /\ ValidBody(Tokenize(text))
    /\ PlaceholderNumbers(Tokenize(text)) # <<>>
    /\ \A k \in ToSet(TokensOf(text)) : TokenAllowed(NormalizeSource(source), k)

ParseTemplateForm(text, source) ==
    [body      |-> Tokenize(text),
     variables |-> TokensOf(text),
     source    |-> NormalizeSource(source),
     examples  |-> ExamplesFor(Tokenize(text), TokensOf(text))]

-----------------------------------------------------------------------------
(* Back to the editor.                                                     *)

TokenAtPosition(template, n) ==
    IF n \in DOMAIN template.variables THEN template.variables[n]
    ELSE DefaultTokenForPosition(n)

(* Mutated form: the older reading of the slots goes first.                *)
SemanticBodyLegacyFirst(template) ==
    [i \in DOMAIN template.body |->
       LET n == template.body[i].slot IN
       IF template.body[i].kind = "slot" /\ DefaultTokenForPosition(n) # NoChip
       THEN Chip(DefaultTokenForPosition(n)) ELSE template.body[i]]

SemanticBodyForEdit(template) ==
    [i \in DOMAIN template.body |->
       LET key == TokenAtPosition(template, template.body[i].slot) IN
       IF template.body[i].kind = "slot" /\ key # NoChip THEN Chip(key)
       ELSE template.body[i]]

(* The example the editor shows for a chip: that of the last slot it has.  *)
TemplateExamples(template, k) ==
    LET slots == {i \in DOMAIN template.examples : TokenAtPosition(template, i) = k}
    IN  template.examples[CHOOSE i \in slots : \A j \in slots : j <= i]

-----------------------------------------------------------------------------
(* From the template to a message.  An event carries some of the chips'    *)
(* data; the value of a chip is written as the chip.                       *)

(* buildVariables: what fills each slot, and what the event does not have. *)
ValueAt(template, event, n) ==
    LET key == IF n \in DOMAIN template.variables THEN template.variables[n]
               ELSE DefaultTokenForPosition(n)
    IN  IF key \in event THEN key ELSE Dash

BuildVariables(template, event) ==
    [n \in 1 .. CountVariables(template.body) |-> ValueAt(template, event, n)]

Missing(template, event) ==
    IF template.variables = <<>> THEN {}
    ELSE {n \in 1 .. CountVariables(template.body) :
            ValueAt(template, event, n) = Dash}

(* testVariables: examples, then a sample vocabulary, then the dash.       *)
TestVariables(template) ==
    [n \in 1 .. CountVariables(template.body) |->
       IF n \in DOMAIN template.variables THEN template.variables[n]
       ELSE IF n <= 6 THEN "sample" ELSE Dash]

(* validateVariables compares two numbers.                                 *)
GateOpen(template, vars) ==
    Cardinality(DOMAIN vars) = CountVariables(template.body)

(* buildComponents: a parameter for each variable in the text; a slot      *)
(* without a value is an error.                                            *)
Buildable(template, vars) ==
    ToSet(PlaceholderNumbers(template.body)) \subseteq DOMAIN vars

BuildComponents(template, vars) ==
    LET numbers == PlaceholderNumbers(template.body)
    IN  [i \in DOMAIN numbers |-> vars[numbers[i]]]

(* RenderTemplateBody: the copy the history keeps.                         *)
RenderTemplateBody(template, vars) ==
    [i \in DOMAIN template.body |->
       LET p == template.body[i] IN
       IF p.kind # "slot" THEN "text"
       ELSE IF p.slot \in DOMAIN vars THEN vars[p.slot] ELSE Dash]

(* Meta puts the n-th parameter into every place of slot n.                *)
ShownByMeta(template, params) ==
    [i \in DOMAIN template.body |->
       LET p == template.body[i] IN
       IF p.kind # "slot" THEN "text" ELSE params[p.slot]]

-----------------------------------------------------------------------------
(* What is said of texts.                                                  *)

(* The author used chips, and no bare numbers beside them.                 *)
Semantic(text) == \A p \in ToSet(text) : p.kind # "slot"

(* A chip that stands earlier in the text too.                             *)
Repeats(text, i) ==
    text[i].kind = "chip" /\ \E h \in 1 .. i - 1 : text[h] = text[i]

(* No chip is repeated before the last new chip.                           *)
NewChipsFirst(text) ==
    \A j \in DOMAIN text :
        text[j].kind = "chip" /\ ~Repeats(text, j)
          => \A i \in 1 .. j - 1 : ~Repeats(text, i)

=============================================================================
