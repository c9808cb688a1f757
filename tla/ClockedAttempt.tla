--------------------------- MODULE ClockedAttempt ---------------------------
(***************************************************************************)
(* The clock of one attempt (ownMeta and next-section of                   *)
(* apps/api/src/routes/attempts.ts, over SectionClock), to the second: a   *)
(* request that only looks at the attempt ends the sections whose time is  *)
(* up, and writes the meta back after others may have; "Submit section"    *)
(* ends one early.  Looks overlap each other, a submission of a section    *)
(* comes alone (what a late write does to one is in AttemptStore).         *)
(***************************************************************************)
EXTENDS Absent, Naturals, Sequences

CONSTANTS
    Templates,  \* the templates of the tests
    Lookers,    \* requests that look at it, at once
    AnswerGrace,
    MaxTime     \* the clock stops here

Clock == INSTANCE SectionClock

ASSUME NoneAssumption == None \notin Nat
ASSUME TimeAssumption == MaxTime \in Nat /\ AnswerGrace \in Nat
\* Whatever snapshot a test has stored: times missing, zero, or beyond the total.
ASSUME TemplatesAssumption ==
    \A t \in Templates : t.locked \in BOOLEAN /\ t.times \in Seq(Nat \cup {None}) /\ t.total \in Nat

VARIABLES
    template,
    time,       \* seconds since the attempt was started
    timing,     \* the attempt's meta: deadlines, section, ends
    write,      \* what each request is about to write, None when it is not under way
    unseen,     \* history: the meta if nobody had looked, but for the submissions of sections
    early       \* history: the sections that the student submitted
clockVars == <<template, time, timing, write, unseen, early>>

ClockInit ==
    /\ template \in Templates
    /\ time = 0
    /\ timing = Clock!InitialTiming(template, time)
    /\ write = [r \in Lookers |-> None]
    /\ unseen = timing
    /\ early = {}

Tick ==
    /\ time < MaxTime
    /\ time' \in (time + 1)..MaxTime
    /\ UNCHANGED <<template, timing, write, unseen, early>>

\* A request looks (ownMeta): it writes the meta only when a section ended.
Look(r) ==
    /\ write[r] = None
    /\ Clock!AdvanceSection(timing, time) # timing
    /\ write' = [write EXCEPT ![r] = Clock!AdvanceSection(timing, time)]
    /\ UNCHANGED <<template, time, timing, unseen, early>>

\* Its write arrives (writeMeta), or the process dies first.
Write(r) ==
    /\ write[r] # None
    /\ timing' \in {timing, write[r]}
    /\ write' = [write EXCEPT ![r] = None]
    /\ UNCHANGED <<template, time, unseen, early>>

\* "Submit section" (next-section): it looks first, as every request does.
SubmitSection ==
    /\ \A r \in Lookers : write[r] = None
    /\ LET seen == Clock!AdvanceSection(timing, time)
       IN  /\ timing' = Clock!FinishSection(seen, time)
           /\ unseen' = Clock!FinishSection(Clock!AdvanceSection(unseen, time), time)
           /\ early' = IF Clock!FinishSection(seen, time) = seen THEN early ELSE early \cup {seen.sectionIndex}
    /\ UNCHANGED <<template, time, write>>

ClockNext == Tick \/ SubmitSection \/ \E r \in Lookers : Look(r) \/ Write(r)
ClockSpec == ClockInit /\ [][ClockNext]_clockVars

(***************************************************************************)
(* The attempt as the next request sees it, and when each section began.   *)
(***************************************************************************)
Looked == Clock!AdvanceSection(timing, time)
Began(meta, section) == IF section = 0 THEN 0 ELSE meta.sectionEnds[section]

\* What anybody looked at in between makes no difference to what is seen.
LooksLeaveNoTrace == Looked = Clock!AdvanceSection(unseen, time)
\* A section's own time, from when it began, ends then or with the attempt.
TimeOf(section) == Looked.sectionTimes[section + 1]
OwnEnd(section) == Clock!Smaller(Looked.deadline, Began(Looked, section) + TimeOf(section))
\* Every section over had its own time, and less only when the student submitted it.
OwnTime ==
    \A section \in 0..(Looked.sectionIndex - 1) :
        LET ended == Looked.sectionEnds[section + 1]
        IN  IF section \in early THEN Began(Looked, section) <= ended /\ ended <= OwnEnd(section)
            ELSE ended = OwnEnd(section)
\* An answer that is saved (canSaveAnswer) is of a section that has begun, and by the client's
\* clock was made in its time or the grace after it; the attempt's deadline takes the place of the
\* section's own for the last one, and when the sections' clock does not run.
LastMoment(section) ==
    IF Clock!Runs(template) /\ section + 1 < Len(template.times) THEN OwnEnd(section) ELSE Looked.deadline
WithinTime ==
    template.locked =>
        \A section \in 0..(Len(template.times) - 1), at \in 0..time :
            Clock!Saves(Looked, section, at, time) =>
                /\ section <= Looked.sectionIndex
                /\ Began(Looked, section) <= time
                /\ at <= LastMoment(section) + AnswerGrace
\* A template that passes its own check gives every section its whole time before the deadline.
WholeTime ==
    Clock!CheckTemplate(template) /\ template.locked =>
        \A section \in 0..(Len(template.times) - 1) :
            section <= Looked.sectionIndex => OwnEnd(section) = Began(Looked, section) + template.times[section + 1]

\* The clock is exact (advanceSection, finishSection, canSaveAnswer), for whatever times a test has
\* stored: no request that only looks, in whatever order their writes arrive, changes what the next
\* one sees; every section that is over had its own time to the second, unless the student ended it
\* or the attempt's deadline came first; no answer is taken that was made later; and the
\* template's check keeps the deadline from coming first.
ClockExact == LooksLeaveNoTrace /\ OwnTime /\ WithinTime /\ WholeTime

\* Locked sections go on to the next one when their time is up: not when the first one's time is
\* zero or missing, which only the template's own check keeps out.
NeverStuck ==
    template.locked /\ Len(template.times) > 1 => Looked.sectionIndex > 0 \/ Looked.sectionDeadline # None
=============================================================================
