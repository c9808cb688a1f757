---------------------------- MODULE SectionClock ----------------------------
(***************************************************************************)
(* The clock of an attempt with locked sections: the rules a template must *)
(* keep (packages/types/src/exam-template.ts) and the deadlines that       *)
(* packages/core/src/attemptStore.ts derives from the sections' times.     *)
(* Times are naturals; a section's time is None when it is not set.  A     *)
(* template is its sections' times, its total, and whether they are locked.*)
(***************************************************************************)
EXTENDS Naturals, Sequences

CONSTANTS
    None,
    AnswerGrace  \* ANSWER_GRACE_MS: answers are taken this long after a deadline

\* timeSec ?? 0
Seconds(timeSec) == IF timeSec = None THEN 0 ELSE timeSec
Smaller(a, b) == IF a <= b THEN a ELSE b

\* The times of the first so many sections together, of those that have one.
TimesUpTo(times) ==
    LET sum[i \in 0..Len(times)] ==
            IF i = 0 THEN 0 ELSE sum[i - 1] + Seconds(times[i])
    IN  sum
TimesAddUp(times, total) ==
    IF \A i \in DOMAIN times : times[i] # None THEN TimesUpTo(times)[Len(times)] = total
    ELSE TimesUpTo(times)[Len(times)] <= total
CheckTemplate(template) ==
    /\ 0 \notin {template.times[i] : i \in DOMAIN template.times}
    /\ template.locked => \A i \in DOMAIN template.times : template.times[i] # None
    /\ TimesAddUp(template.times, template.total)

\* sectionTimes of the attempt's meta: 0 where the test's section has none; empty when not locked.
SectionTimes(template) ==
    IF template.locked THEN [i \in DOMAIN template.times |-> Seconds(template.times[i])] ELSE <<>>

\* The clock of the sections runs only when the first one's time is neither missing nor zero.
Runs(template) == template.locked /\ template.times # <<>> /\ template.times[1] \notin {None, 0}
InitialTiming(template, now) ==
    [deadline |-> now + template.total, sectionIndex |-> 0, sectionEnds |-> <<>>,
     sectionTimes |-> SectionTimes(template),
     sectionDeadline |-> IF Runs(template)
                         THEN Smaller(now + template.total, now + template.times[1]) ELSE None]

IsLast(meta) == meta.sectionIndex + 1 >= Len(meta.sectionTimes)
\* The next section ends its own time after `from`, but not after the attempt.
NextSection(meta, from) ==
    [meta EXCEPT !.sectionEnds = Append(@, from),
                 !.sectionIndex = @ + 1,
                 !.sectionDeadline = Smaller(meta.deadline, from + meta.sectionTimes[meta.sectionIndex + 2])]

\* Mutant: the next section starts when somebody looks.
EndWhenSeen(meta, now) ==
    IF meta.sectionDeadline # None /\ meta.sectionDeadline <= now /\ ~IsLast(meta)
    THEN NextSection(meta, now) ELSE meta
\* A section whose time ran out is ended, the next runs from where it ended.
EndIfDue(meta, now) ==
    IF meta.sectionDeadline # None /\ meta.sectionDeadline <= now /\ ~IsLast(meta)
    THEN NextSection(meta, meta.sectionDeadline) ELSE meta
\* The loop of advanceSection: every section whose time ran out, at most all that are left.
AdvanceSection(meta, now) ==
    LET Left == Len(meta.sectionTimes) - meta.sectionIndex
        run[n \in 0..Left] == IF n = 0 THEN meta ELSE EndIfDue(run[n - 1], now)
    IN  IF meta.sectionTimes = <<>> THEN meta ELSE run[Left]

\* "Submit section": the last one ends with the attempt.
FinishSection(meta, now) ==
    IF meta.sectionDeadline = None \/ IsLast(meta) THEN meta ELSE NextSection(meta, now)

\* PATCH /:id/answers at `now`, for an answer to a section that the client made at `at`: refused
\* past the attempt's deadline, and for a section that is over or not begun, with the grace
\* (canSaveAnswer).
InGrace(meta, section, at) ==
    /\ section < meta.sectionIndex
    /\ section + 1 \in DOMAIN meta.sectionEnds
    /\ at <= meta.sectionEnds[section + 1] + AnswerGrace
Saves(meta, section, at, now) ==
    /\ now <= meta.deadline + AnswerGrace
    /\ meta.sectionTimes = <<>> \/ section = meta.sectionIndex \/ InGrace(meta, section, at)
=============================================================================
