------------------------------ MODULE MarkerScan ------------------------------
(***************************************************************************)
(* check_content of scripts/check_conflict_markers.py: one pass over the   *)
(* lines of a text that finds conflict blocks and stray markers.  A line   *)
(* is the marker it carries and the marker's width; the text is chosen as  *)
(* it is read.                                                             *)
(***************************************************************************)
EXTENDS Naturals, Sequences

CONSTANTS
  Widths,         \* widths of markers
  Configured,     \* the width set by .gitattributes, as a set of at most one
  Markdown,       \* is the file a Markdown file
  MaxViolations,  \* MAX_VIOLATIONS
  MaxLines        \* bound on the length of a text

ASSUME MarkerAssumption ==
  /\ Widths \subseteq Nat \ {0}
  /\ Configured \subseteq Nat \ {0}
  /\ Markdown \in BOOLEAN
  /\ MaxViolations \in Nat
  /\ MaxLines \in Nat

VARIABLES
  lines,         \* the lines read so far
  opener,        \* number of the line that opened the current block, or 0
  openerLen,     \* its width
  hasSeparator,  \* was a separator of that width seen
  violations,    \* what was reported, in order
  scan           \* "reading", "limit", or "done"

markerVars == <<lines, opener, openerLen, hasSeparator, violations, scan>>

MarkerKinds == {"opener", "closer", "diff3", "separator"}

\* A line of prose can be underlined as a heading; "other" is any other text.
Lines == [kind : MarkerKinds, width : Widths]
           \cup [kind : {"prose", "other"}, width : {0}]

Violations ==
  [kind : {"block", "unclosed", "orphan", "mismatched", "limit"}, at : Nat]

Violation(what, line) == [kind |-> what, at |-> line]

\* Width 3 and up is a marker of git; a narrower one only where configured.
Reportable(width) == width >= 3 \/ width \in Configured

\* enumerate(lines, 1): the number of the line being read.
Number == Len(lines) + 1

\* Tested before each line.
AtLimit == Len(violations) >= MaxViolations

\* A separator of line n of text underlines a heading.
IsSetext(text, n) == Markdown /\ n > 1 /\ text[n - 1].kind = "prose"

MarkerInit ==
  /\ lines = <<>>
  /\ opener = 0
  /\ openerLen = 0
  /\ hasSeparator = FALSE
  /\ violations = <<>>
  /\ scan = "reading"

Close ==
  /\ opener' = 0
  /\ openerLen' = 0
  /\ hasSeparator' = FALSE

KeepBlock == UNCHANGED <<opener, openerLen, hasSeparator>>

Report(found) == violations' = violations \o found

\* The violation for a marker of this width, or nothing if it is too narrow.
IfReportable(width, what, line) ==
  IF Reportable(width) THEN <<Violation(what, line)>> ELSE <<>>

OpenerUnclosed ==
  IF opener # 0 THEN IfReportable(openerLen, "unclosed", opener) ELSE <<>>

-----------------------------------------------------------------------------
(* One line *)

\* Mutant of ScanOpener: the block it abandons is forgotten.
ForgetAbandoned(line) ==
  /\ line.kind = "opener"
  /\ UNCHANGED violations
  /\ opener' = Number
  /\ openerLen' = line.width
  /\ hasSeparator' = FALSE

\* An opener reports the block it abandons, and opens another.
ScanOpener(line) ==
  /\ line.kind = "opener"
  /\ Report(OpenerUnclosed)
  /\ opener' = Number
  /\ openerLen' = line.width
  /\ hasSeparator' = FALSE

\* Mutant of ScanCloser: only blocks of reportable width are reported.
CloseReportable(line) ==
  /\ line.kind = "closer"
  /\ IF opener = 0 THEN
       /\ Report(IfReportable(line.width, "orphan", Number))
       /\ KeepBlock
     ELSE
       /\ Report(IF line.width = openerLen /\ hasSeparator
                   THEN IfReportable(openerLen, "block", opener)
                   ELSE OpenerUnclosed
                          \o IfReportable(line.width, "mismatched", Number))
       /\ Close

\* A closer ends a complete block of any width, or is a mismatch or an orphan.
ScanCloser(line) ==
  /\ line.kind = "closer"
  /\ IF opener = 0 THEN
       /\ Report(IfReportable(line.width, "orphan", Number))
       /\ KeepBlock
     ELSE
       /\ Report(IF line.width = openerLen /\ hasSeparator
                   THEN <<Violation("block", opener)>>
                   ELSE OpenerUnclosed
                          \o IfReportable(line.width, "mismatched", Number))
       /\ Close

\* The separator of the open block, or an orphan.
SeparateOr(line, found) ==
  IF opener # 0 /\ line.width = openerLen THEN
    /\ hasSeparator' = TRUE
    /\ UNCHANGED <<opener, openerLen, violations>>
  ELSE
    /\ Report(found)
    /\ KeepBlock

ScanDiff3(line) ==
  /\ line.kind = "diff3"
  /\ SeparateOr(line, IfReportable(line.width, "orphan", Number))

\* Mutant of ScanSeparator: every underline is taken for a heading.
SkipUnderlines(line) ==
  /\ line.kind = "separator"
  /\ SeparateOr(line, IF Markdown THEN <<>>
                      ELSE IfReportable(line.width, "orphan", Number))

ScanSeparator(line) ==
  /\ line.kind = "separator"
  /\ SeparateOr(line, IF IsSetext(lines, Number) THEN <<>>
                      ELSE IfReportable(line.width, "orphan", Number))

ScanText(line) ==
  /\ line.kind \in {"prose", "other"}
  /\ UNCHANGED violations
  /\ KeepBlock

-----------------------------------------------------------------------------
(* The pass over the text *)

ReadLine ==
  /\ scan = "reading"
  /\ ~AtLimit
  /\ Len(lines) < MaxLines
  /\ \E line \in Lines :
       /\ lines' = Append(lines, line)
       /\ \/ ScanOpener(line) \/ ScanCloser(line) \/ ScanDiff3(line)
          \/ ScanSeparator(line) \/ ScanText(line)
  /\ UNCHANGED scan

\* Another line, after the limit was reached.
StopAtLimit ==
  /\ scan = "reading"
  /\ AtLimit
  /\ Len(lines) < MaxLines
  /\ scan' = "limit"
  /\ Report(<<Violation("limit", 0)>>)
  /\ UNCHANGED lines
  /\ KeepBlock

\* After the last line, or after the limit: the open block is unclosed.
EndText ==
  /\ scan \in {"reading", "limit"}
  /\ scan' = "done"
  /\ Report(OpenerUnclosed)
  /\ UNCHANGED lines
  /\ KeepBlock

MarkerNext == ReadLine \/ StopAtLimit \/ EndText

MarkerSpec == MarkerInit /\ [][MarkerNext]_markerVars

-----------------------------------------------------------------------------
(* Properties *)

\* Types of the variables; an open block is a line that was read.
MarkerTypeOK ==
  /\ lines \in Seq(Lines)
  /\ opener \in 0..Len(lines)
  /\ openerLen \in Nat
  /\ hasSeparator \in BOOLEAN
  /\ violations \in Seq(Violations)
  /\ scan \in {"reading", "limit", "done"}

\* Each opener of reportable width is reported exactly once, as a complete
\* block or as unclosed, whatever markers the lines between carry; at the
\* limit too, for every line that was read.
OpenersAnsweredOnce ==
  scan = "done" =>
    \A i \in 1..Len(lines) :
      lines[i].kind = "opener" /\ Reportable(lines[i].width) =>
        \E k \in 1..Len(violations) :
          \A j \in 1..Len(violations) :
            (violations[j].at = i
               /\ violations[j].kind \in {"block", "unclosed"}) <=> j = k

\* No report means no marker: every marker of reportable width in the text is
\* then the underline of a Markdown heading.
CleanMeansNoMarker ==
  scan = "done" /\ violations = <<>> =>
    \A i \in 1..Len(lines) :
      lines[i].kind \in MarkerKinds /\ Reportable(lines[i].width) =>
        lines[i].kind = "separator" /\ IsSetext(lines, i)

\* Lines i to k of the text are a conflict block as git writes one.
IsBlock(text, i, k) ==
  /\ text[i].kind = "opener"
  /\ text[k].kind = "closer"
  /\ text[k].width = text[i].width
  /\ \E j \in (i + 1)..(k - 1) :
       text[j].kind \in {"diff3", "separator"} /\ text[j].width = text[i].width
  /\ \A j \in (i + 1)..(k - 1) : text[j].kind \notin {"opener", "closer"}

\* A complete block is reported whatever its width, although narrow markers
\* alone are not; and nothing else is reported as a block.
BlocksAreBlocks ==
  \A i \in 1..Len(lines) :
    (\E k \in i..Len(lines) : IsBlock(lines, i, k))
      <=> (\E n \in 1..Len(violations) : violations[n] = Violation("block", i))

\* The report is exact: it holds every marker there is and no block there is not.
MarkersAreReported ==
  MarkerTypeOK /\ OpenersAnsweredOnce /\ CleanMeansNoMarker /\ BlocksAreBlocks
=============================================================================
