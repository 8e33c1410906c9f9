------------------------------- MODULE TestReport -------------------------------
(***************************************************************************)
(* What `saftest report` makes of the log of the test engine               *)
(* (src/trunk/lib/SAFTestReport.rb), line by line.  Lines other than BEGIN *)
(* and END, the output of the cases, only go into the text of the report   *)
(* and are left out.                                                       *)
(***************************************************************************)
EXTENDS Naturals, Sequences, SequencesExt

CONSTANT Cases     \* the names of the test cases
NoName == "none"

Counters == {"PASSED", "FAILED", "SKIPPED", "NOT_CONFIGURED"}
EXIT_STATUS_STRINGS == <<"PASSED", "FAILED", "SKIPPED", "NOT_CONFIGURED">>

\* "by" is not in the text: the engine that began a case, the process that ended.
Begin(case, by) == [what |-> "BEGIN", case |-> case, code |-> 0, by |-> by]
End(case, code, by) == [what |-> "END", case |-> case, code |-> code, by |-> by]

\* An exit status without a name leaves a hole in the line, which then is like
\* any other line.
Matches(line) == line.what = "BEGIN" \/ line.code < Len(EXIT_STATUS_STRINGS)

NewReport == [name |-> NoName, raised |-> FALSE,
              count |-> [c \in Cases |-> [s \in Counters |-> 0]]]

\* An END that is not of the case begun last is the end of the report.
ReadLine(r, line) ==
    IF r.raised \/ ~Matches(line) THEN r
    ELSE IF line.what = "BEGIN" THEN [r EXCEPT !.name = line.case]
    ELSE IF line.case # r.name THEN [r EXCEPT !.raised = TRUE]
    ELSE [r EXCEPT !.name = NoName,
                   !.count[line.case][EXIT_STATUS_STRINGS[line.code + 1]] = @ + 1]

Report(lines) ==
    LET r[n \in 0 .. Len(lines)] == IF n = 0 THEN NewReport ELSE ReadLine(r[n - 1], lines[n])
    IN r[Len(lines)]

=============================================================================
