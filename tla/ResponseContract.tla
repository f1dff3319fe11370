-------------------------- MODULE ResponseContract --------------------------
(***************************************************************************)
(* A review report as its two readers see it: the validator                *)
(* scripts/check_pr_review_response.py and the "Parse verdict" step of     *)
(* security-review.yml.  Both look for the last line that starts with      *)
(* VERDICT: at column zero; they take the token out of it differently.     *)
(*                                                                         *)
(* A report is a sequence of lines.  A line is reduced to what either      *)
(* reader can tell apart:                                                  *)
(*   text     anything else, quoted lines and indented verdicts included   *)
(*   talk     first-person narration of the review process                 *)
(*   fence    a code fence                                                 *)
(*   blank    white space only                                             *)
(*   verdict  a VERDICT: line, with its token and what surrounds it        *)
(*   json     a VERDICT_JSON: line, with the verdict it states             *)
(***************************************************************************)
EXTENDS Naturals, Sequences, FiniteSets, FiniteSetsExt

Verdicts == {"APPROVE", "BLOCK", "NEEDS-HUMAN"}
Blocking == {"BLOCK", "NEEDS-HUMAN"}

\* What surrounds the token of a VERDICT: line:
\*   "plain"  blanks, then nothing or " - reason"
\*   "junk"   blanks, then words without a dash
\*   "wide"   white space that only Python counts as such, a form feed or a
\*            no-break space, next to the token
Surroundings == {"plain", "junk", "wide"}

Line(kind)              == [kind |-> kind]
VerdictLine(token, sur) == [kind |-> "verdict", token |-> token, around |-> sur]
JsonLine(verdict)       == [kind |-> "json", verdict |-> verdict]

\* What stands in the place of a verdict: "other" is any other word, or an
\* object that the validator cannot read.
Tokens == Verdicts \cup {"other"}

ReportLines ==
  {Line(kind) : kind \in {"text", "talk", "fence", "blank"}}
  \cup [kind : {"verdict"}, token : Tokens, around : Surroundings]
  \cup [kind : {"json"}, verdict : Tokens]

LinesOf(report, kind) == {i \in DOMAIN report : report[i].kind = kind}

-----------------------------------------------------------------------------
(* The validator *)

\* Mutant of VerdictRead: the first verdict line decides.
FirstVerdictRead(report) == report[Min(LinesOf(report, "verdict"))]

\* _last_verdict: the last line with the prefix, well formed or not.
VerdictRead(report) == report[Max(LinesOf(report, "verdict"))]

\* VERDICT_PATTERN, after the line is stripped of trailing white space.
MatchesPattern(line) == line.token \in Verdicts /\ line.around # "junk"

\* process_narration_lines: narration before the last verdict line and outside
\* of code fences.
Narrates(report) ==
  \E i \in LinesOf(report, "talk") :
    /\ i < Max(LinesOf(report, "verdict"))
    /\ Cardinality({j \in LinesOf(report, "fence") : j < i}) % 2 = 0

\* _parse_json_line: the last VERDICT_JSON line is the last line with text and
\* comes right after the last verdict line.
JsonEndsReport(report) ==
  LET objects == LinesOf(report, "json")
      written == DOMAIN report \ LinesOf(report, "blank")
  IN /\ objects # {}
     /\ Max(objects) = Max(written)
     /\ Max(objects) = Max(LinesOf(report, "verdict")) + 1

\* Mutant of JsonAgrees: the object's verdict is not compared.
JsonIsThere(report) == JsonEndsReport(report)

JsonAgrees(report) ==
  /\ JsonEndsReport(report)
  /\ report[Max(LinesOf(report, "json"))].verdict = VerdictRead(report).token

\* validate_response.
Accepts(report) ==
  /\ LinesOf(report, "verdict") # {}
  /\ MatchesPattern(VerdictRead(report))
  /\ ~Narrates(report)
  /\ JsonAgrees(report)

-----------------------------------------------------------------------------
(* The workflow step *)

\* grep -E '^VERDICT:' | tail -1.
GateLine(report) == report[Max(LinesOf(report, "verdict"))]

\* read -r: the first word after the colon, split at blanks and tabs only.
GateToken(line) == IF line.around = "wide" THEN "unrecognized" ELSE line.token
=============================================================================
