------------------------------ MODULE Redaction ------------------------------
(***************************************************************************)
(* The stage between extraction and everything that is stored: the rules   *)
(* of security/redaction.py run over a candidate's text one after the      *)
(* other, then its sensitivity and license labels are settled              *)
(* (redaction_stage.py, classification.py, license_policy.py).             *)
(*                                                                         *)
(* A text is a row of pieces <<class, n>>, of which those that touch are   *)
(* not kept apart by a blank.  The classes are the parts the patterns are  *)
(* made of, so that one rule may take what another one needs:              *)
(*   key        token=, password: ... with a quote that may follow         *)
(*   bearer     the word                                                   *)
(*   begin, end, header   -----BEGIN, -----END, RSA PRIVATE KEY-----       *)
(*   scheme, authority    postgres, ://host                                *)
(*   cloud key  AKIA and 16 characters                                     *)
(*   domain     @host.tld, an address with the words before it             *)
(*   space, quote, license, word   blanks, quotes, a license line, letters *)
(* and those of a marker.  n is a piece's identity, a license's name or a  *)
(* marker's number.  A header's own blanks are left out, and a piece is     *)
(* matched whole or not at all.                                            *)
(***************************************************************************)
EXTENDS OrderedSets, SequencesExt

CONSTANTS
  ConfiguredRules,   \* security.yaml: rules; the classes their patterns begin
                     \* with, and whether they take the value that follows
  AllowedLicenses    \* ALLOWED_RETRIEVABLE_LICENSE_IDS

Marks == {"opening", "secret label", "pii label", "closing"}

Worded == {"word", "bearer", "scheme", "cloud key"}

Classes ==
  Worded \cup Marks \cup {"key", "begin", "end", "header", "authority", "domain",
                          "space", "quote", "license"}

Sensitivities == <<"unknown", "public", "internal", "confidential", "restricted">>

LicenseStatuses == {"unknown", "review_required", "allowed", "denied"}

ASSUME RedactionConstants ==
  ConfiguredRules \in Seq([classes: SUBSET STRING, value: BOOLEAN,
                           type: {"secret", "pii"}, enabled: BOOLEAN,
                           pattern: BOOLEAN])

-----------------------------------------------------------------------------
(* What the patterns match: the pieces from i to j.                        *)

AllIn(text, i, j, classes) == \A k \in i..j : text[k][1] \in classes

(* A word begins before piece i, or ends after piece j.                    *)
Begins(text, i) ==
  i = 1 \/ text[i - 1][1] \notin
             Worded \cup {"begin", "end", "authority", "domain", "license"}

Ends(text, j) ==
  j = Len(text) \/ text[j + 1][1] \notin
                      (Worded \cup Marks \cup {"key", "header", "license"}) \ {"opening"}

(* All the pieces of these classes that follow one another up to j.        *)
Run(text, i, j, classes) ==
  /\ i <= j /\ AllIn(text, i, j, classes)
  /\ j = Len(text) \/ text[j + 1][1] \notin classes

Solid == Classes \ {"space", "quote"}

(* Blanks, a quote at most, and what follows up to a blank or a quote.     *)
Value(text, i, j) ==
  \E first \in i..j :
    /\ AllIn(text, i, first - 2, {"space"})
    /\ first > i => text[first - 1][1] \in {"space", "quote"}
    /\ Run(text, first, j, Solid)

(* The secret label of a marker reads like a key.                          *)
Assignment(text, i, j) ==
  /\ text[i][1] \in {"key", "secret label"} /\ Begins(text, i)
  /\ Value(text, i + 1, j)

BearerToken(text, i, j) ==
  /\ text[i][1] = "bearer" /\ Begins(text, i)
  /\ \E first \in (i + 2)..j :
       /\ AllIn(text, i + 1, first - 1, {"space"})
       /\ Run(text, first, j, Worded \cup {"begin", "end", "header", "key"})

Dashed(text, i, class) ==
  /\ text[i][1] = class /\ i + 2 <= Len(text)
  /\ text[i + 1][1] = "space" /\ text[i + 2][1] = "header"

KeyBlock(text, i, j) ==
  /\ i + 5 <= j /\ Dashed(text, i, "begin") /\ Dashed(text, j - 2, "end")
  /\ \A k \in (i + 3)..(j - 3) : ~Dashed(text, k, "end")

ConnectionString(text, i, j) ==
  /\ text[i][1] = "scheme" /\ Begins(text, i)
  /\ i < j /\ text[i + 1][1] = "authority" /\ Run(text, i + 1, j, Solid)

CloudKey(text, i, j) ==
  text[i][1] = "cloud key" /\ i = j /\ Begins(text, i) /\ Ends(text, j)

EmailAddress(text, i, j) ==
  /\ i < j /\ Begins(text, i)
  /\ AllIn(text, i, j - 1, Worded \cup {"begin", "end", "header"})
  /\ text[j][1] = "domain" /\ Ends(text, j)

Configured(rule, text, i, j) ==
  /\ text[i][1] \in rule.classes
  /\ IF rule.value THEN Value(text, i + 1, j) ELSE i = j

Fits(rule, text, i, j) ==
  \/ rule.name = "assignment" /\ Assignment(text, i, j)
  \/ rule.name = "bearer" /\ BearerToken(text, i, j)
  \/ rule.name = "key block" /\ KeyBlock(text, i, j)
  \/ rule.name = "connection" /\ ConnectionString(text, i, j)
  \/ rule.name = "cloud key" /\ CloudKey(text, i, j)
  \/ rule.name = "email" /\ EmailAddress(text, i, j)
  \/ rule.name = "configured" /\ Configured(rule, text, i, j)

-----------------------------------------------------------------------------
Rule(name, type) == [name |-> name, type |-> type, classes |-> {}, value |-> FALSE]

(* A mutated form: no rule for e-mail addresses.                           *)
SecretRules(pii) ==
  <<Rule("assignment", "secret"), Rule("bearer", "secret"),
    Rule("key block", "secret"), Rule("connection", "secret"),
    Rule("cloud key", "secret")>>

BuiltinRules(pii) ==
  <<Rule("assignment", "secret"), Rule("bearer", "secret"),
    Rule("key block", "secret"), Rule("connection", "secret"),
    Rule("cloud key", "secret")>>
  \o IF pii THEN <<Rule("email", "pii")>> ELSE <<>>

RulesFor(pii) ==
  LET usable == KeptAt(ConfiguredRules,
                  {i \in DOMAIN ConfiguredRules :
                     ConfiguredRules[i].enabled /\ ConfiguredRules[i].pattern})
  IN  BuiltinRules(pii)
      \o [i \in DOMAIN usable |->
            [name |-> "configured", type |-> usable[i].type,
             classes |-> usable[i].classes, value |-> usable[i].value]]

(* [REDACTED:SECRET:n] and [REDACTED:PII:n].                               *)
Marker(type, n) ==
  <<<<"opening", 0>>,
    <<IF type = "secret" THEN "secret label" ELSE "pii label", 0>>, <<"closing", n>>>>

MatchesAt(rule, text, i) == {j \in i..Len(text) : Fits(rule, text, i, j)}

(* finditer and sub: from the left, no match within another; last is where *)
(* the latest match ends.                                                  *)
Scanned(rule, text, marker, scan, i) ==
  LET found == MatchesAt(rule, text, i)
  IN  IF i <= scan.last THEN scan
      ELSE IF found = {} THEN [scan EXCEPT !.text = Append(@, text[i])]
      ELSE [text |-> scan.text \o marker, last |-> CHOOSE j \in found : TRUE]

Replaced(rule, text, marker) ==
  LET upto[i \in 0..Len(text)] ==
        IF i = 0 THEN [text |-> <<>>, last |-> 0]
        ELSE Scanned(rule, text, marker, upto[i - 1], i)
  IN  upto[Len(text)].text

(* One rule over the text as the rules before it left it: all its matches  *)
(* become the type's next marker.                                          *)
ApplyRule(state, rule) ==
  LET marker == Marker(rule.type, state.used[rule.type] + 1)
  IN  IF \A i \in DOMAIN state.text : MatchesAt(rule, state.text, i) = {} THEN state
      ELSE [text |-> Replaced(rule, state.text, marker),
            used |-> [state.used EXCEPT ![rule.type] = @ + 1],
            findings |-> Append(state.findings,
              [type |-> rule.type, marker |-> marker])]

Untouched(text) ==
  [text |-> text, used |-> [t \in {"secret", "pii"} |-> 0], findings |-> <<>>]

Redact(text, pii) ==
  LET rules == RulesFor(pii)
      after[n \in 0..Len(rules)] ==
        IF n = 0 THEN Untouched(text) ELSE ApplyRule(after[n - 1], rules[n])
  IN  after[Len(rules)]

-----------------------------------------------------------------------------
(* A class the ranks do not know counts as the lowest.                     *)
SensitivityRank(class) ==
  IF \E i \in DOMAIN Sensitivities : Sensitivities[i] = class
  THEN (CHOOSE i \in DOMAIN Sensitivities : Sensitivities[i] = class) - 1 ELSE 0

Stricter(current, candidate) ==
  IF SensitivityRank(candidate) > SensitivityRank(current) THEN candidate ELSE current

Implied(type) == IF type = "secret" THEN "restricted" ELSE "confidential"

ClassifiedSensitivity(existing, findings) ==
  LET upto[n \in 0..Len(findings)] ==
        IF n = 0 THEN existing ELSE Stricter(upto[n - 1], Implied(findings[n].type))
  IN  upto[Len(findings)]

LicenseLines(text) == SelectSeq(text, LAMBDA t : t[1] = "license")

(* The first license line decides, whatever the source's policy says.      *)
LicensePolicy(text, configured) ==
  LET found == LicenseLines(text)
  IN  IF found = <<>> THEN [id |-> 0, status |-> configured]
      ELSE [id |-> found[1][2],
            status |-> IF found[1][2] \in AllowedLicenses THEN "allowed"
                       ELSE "review_required"]

PiiRequired(labels) == labels.sensitivity \in {"confidential", "restricted"}

Sanitized(candidate, labels) ==
  LET redacted == Redact(candidate.text, PiiRequired(labels))
      license  == LicensePolicy(redacted.text, labels.license)
  IN  [candidate |-> candidate, text |-> redacted.text,
       status |-> IF redacted.findings # <<>> THEN "redacted" ELSE "redaction_checked",
       sensitivity |-> ClassifiedSensitivity(labels.sensitivity, redacted.findings),
       license |-> license.status, licensed |-> license.id,
       visibility |-> labels.visibility]

-----------------------------------------------------------------------------
(* The CHECK constraints of a row with eligibility labels (id 0 is NULL).  *)
Accepts(row) ==
  /\ row.license \in LicenseStatuses
  /\ row.sensitivity \in ToSet(Sensitivities)
  /\ row.visibility = "invited_users"
  /\ row.license = "allowed" /\ row.licensed # 0 => row.licensed \in AllowedLicenses
  /\ row.licensed = 0 => row.license \in {"unknown", "review_required"}
=============================================================================
