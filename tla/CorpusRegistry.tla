--------------------------- MODULE CorpusRegistry ---------------------------
(***************************************************************************)
(* src/generator/github: candidates.json holds everyone ever examined, the *)
(* search windows spent and the applicant IDs.  "gh sample" appends to it, *)
(* "gh collect" saves bundles, "gh build" gives IDs and writes a profile   *)
(* file per ID.  Each is a process of its own and may die at any point.    *)
(***************************************************************************)
EXTENDS Integers, SequencesExt, FiniteSetsExt

CONSTANTS Owners,
          Found,             \* search window -> the owners its search returns, in order
          Histories,         \* candidates.json and the old ID file, as the commands may meet them
          LastNumber,        \* the highest number of an ID with four digits (9999 in the code)
          SampleBesideBuild, \* does an operator run "gh sample" beside "gh build"?
          MaxRegistryRuns    \* bound: times sample and build are started

NoId == 0
Candidate(login, selected, id) == [login |-> login, selected |-> selected, id |-> id]
IdOf(list, login) == LET own == {c \in Range(list) : c.login = login}
                     IN IF own = {} THEN NoId ELSE (CHOOSE c \in own : TRUE).id
Known(list) == {c.login : c \in Range(list)}

\* Every login is in the list once, and no ID of the list or of the old file is
\* two logins'.
Numbered(list, old) ==
    /\ \A i, j \in DOMAIN list : list[i].login = list[j].login => i = j
    /\ \A i, j \in DOMAIN list : list[i].id = list[j].id /\ list[i].id # NoId => i = j
    /\ \A l, m \in DOMAIN old : old[l] = old[m] => l = m
    /\ \A i \in DOMAIN list, l \in DOMAIN old : list[i].id = old[l] => list[i].login = l

\* The files as earlier commands left them; logins are strings.
ASSUME RegistryAssumption ==
    /\ LastNumber \in Nat
    /\ IsFiniteSet(Owners) /\ Owners \subseteq STRING
    /\ \A w \in DOMAIN Found : Found[w] \in Seq(STRING)
    /\ \A h \in Histories :
          /\ h.candidates \in Seq([login : STRING, selected : BOOLEAN, id : Nat])
          /\ IsFiniteSet(DOMAIN h.legacy)
          /\ \A l \in DOMAIN h.legacy : h.legacy[l] \in Nat \ {NoId}
          /\ Numbered(h.candidates, h.legacy)

VARIABLES candidates, \* candidates.json: everyone examined, in order
          consumed,   \* candidates.json: windows spent
          legacy,     \* the old ID file: login -> ID, empty once it is gone
          bundles,    \* logins with a raw bundle
          profiles,   \* ID -> login of its profile file
          sampling,   \* gh sample: what it has in memory
          building,   \* gh build: what it has in memory
          written,    \* every login and ID a profile file was ever written for
          started     \* runs so far

registryVars == <<candidates, consumed, legacy, bundles, profiles, sampling, building, written, started>>

NotRunning == [pc |-> "idle"]

RegistryInit == /\ \E h \in Histories : candidates = h.candidates /\ legacy = h.legacy
                /\ consumed = {} /\ bundles = {} /\ profiles = <<>>
                /\ sampling = NotRunning /\ building = NotRunning
                /\ written = {} /\ started = 0

MayStart(other) == started < MaxRegistryRuns /\ (SampleBesideBuild \/ other = NotRunning)

\* sample: candidates and windows are loaded once
SampleStart == /\ sampling = NotRunning /\ MayStart(building)
               /\ sampling' = [pc |-> "search", list |-> candidates, windows |-> consumed,
                               seen |-> Known(candidates), items |-> <<>>]
               /\ started' = started + 1
               /\ UNCHANGED <<candidates, consumed, legacy, bundles, profiles, building, written>>

\* One window: it is spent before its owners are looked up.  When a stratum has
\* enough people, the owners that are left of its window are not looked up.
Search(w) ==
    /\ sampling.pc = "search" /\ w \notin sampling.windows
    /\ sampling' = [sampling EXCEPT !.windows = @ \cup {w}, !.items = Found[w]]
    /\ UNCHANGED <<candidates, consumed, legacy, bundles, profiles, building, written, started>>

\* The next owner: who was seen before is passed over, who cannot be looked up now
\* is not recorded, the others are selected or rejected (evaluate).
Examine ==
    /\ sampling.pc = "search" /\ sampling.items # <<>>
    /\ LET l == Head(sampling.items)
       IN \/ l \in sampling.seen /\ sampling' = [sampling EXCEPT !.items = Tail(@)]
          \/ /\ l \notin sampling.seen
             /\ \E found \in {<<>>} \cup {<<Candidate(l, ok, NoId)>> : ok \in BOOLEAN} :
                  sampling' = [sampling EXCEPT !.items = Tail(@), !.seen = @ \cup {l},
                                               !.list = @ \o found]
    /\ UNCHANGED <<candidates, consumed, legacy, bundles, profiles, building, written, started>>

\* save: there are enough, or no more windows; the file's candidates become those
\* loaded at the start and those found.
SampleSave == /\ sampling.pc = "search"
              /\ candidates' = sampling.list
              /\ consumed' = sampling.windows
              /\ sampling' = NotRunning
              /\ UNCHANGED <<legacy, bundles, profiles, building, written, started>>

\* gh collect: a selected candidate, or any login given explicitly
Collect(l) == /\ l \notin bundles
              /\ bundles' = bundles \cup {l}
              /\ UNCHANGED <<candidates, consumed, legacy, profiles, sampling, building, written, started>>

\* ids.assign, in memory.  The IDs of the old file are folded in; the next number
\* follows the highest one used anywhere that has four digits; every login without an ID gets one, in
\* the order of discovery, new logins sorted behind.
Folded == [i \in DOMAIN candidates |->
              IF candidates[i].id = NoId /\ candidates[i].login \in DOMAIN legacy
              THEN [candidates[i] EXCEPT !.id = legacy[candidates[i].login]] ELSE candidates[i]]

\* Fault: the IDs in use are counted.
NextNumber_Count == Cardinality({c \in Range(Folded) : c.id # NoId}) + 1

InUse == {c.id : c \in Range(Folded)} \cup {legacy[l] : l \in DOMAIN legacy}
NextNumber == Max({0} \cup {n \in InUse : n <= LastNumber}) + 1

Assigned(asked) ==
    LET new == SetToSeq(asked \ Known(candidates))
        all == Folded \o [i \in DOMAIN new |-> Candidate(new[i], TRUE, NoId)]
        need == {i \in DOMAIN all : all[i].login \in asked /\ all[i].id = NoId}
    IN [i \in DOMAIN all |->
           IF i \in need THEN [all[i] EXCEPT !.id = NextNumber + Cardinality({j \in need : j < i})]
           ELSE all[i]]

\* cmd_build, for all or some of the collected logins: load and number, ...
BuildStart == /\ building = NotRunning /\ MayStart(sampling)
              /\ \E asked \in SUBSET bundles \ {{}} :
                   building' = [pc |-> "numbered", list |-> Assigned(asked), todo |-> asked]
              /\ started' = started + 1
              /\ UNCHANGED <<candidates, consumed, legacy, bundles, profiles, sampling, written>>

\* ... write candidates.json, ...
BuildWrite == /\ building.pc = "numbered"
              /\ candidates' = building.list
              /\ building' = [building EXCEPT !.pc = "saved"]
              /\ UNCHANGED <<consumed, legacy, bundles, profiles, sampling, written, started>>

\* ... delete the old ID file, ...
BuildUnlink == /\ building.pc = "saved"
               /\ legacy' = <<>>
               /\ building' = [building EXCEPT !.pc = "profiles"]
               /\ UNCHANGED <<candidates, consumed, bundles, profiles, sampling, written, started>>

\* ... then write the profile files, each named by its ID (one may fail)
BuildProfile(l) == /\ building.pc = "profiles" /\ l \in building.todo
                   /\ building' = [building EXCEPT !.todo = @ \ {l}]
                   /\ LET id == IdOf(building.list, l)
                      IN \/ /\ profiles' = (id :> l) @@ profiles
                            /\ written' = written \cup {[login |-> l, id |-> id]}
                         \/ UNCHANGED <<profiles, written>>
                   /\ UNCHANGED <<candidates, consumed, legacy, bundles, sampling, started>>

BuildDone == /\ building.pc = "profiles" /\ building.todo = {}
             /\ building' = NotRunning
             /\ UNCHANGED <<candidates, consumed, legacy, bundles, profiles, sampling, written, started>>

RegistryDies == /\ \/ sampling # NotRunning /\ sampling' = NotRunning /\ UNCHANGED building
                   \/ building # NotRunning /\ building' = NotRunning /\ UNCHANGED sampling
                /\ UNCHANGED <<candidates, consumed, legacy, bundles, profiles, written, started>>

RegistryNext == \/ SampleStart \/ Examine \/ SampleSave \/ BuildStart \/ BuildWrite \/ BuildUnlink \/ BuildDone
                \/ RegistryDies
                \/ \E w \in DOMAIN Found : Search(w)
                \/ \E l \in Owners : Collect(l) \/ BuildProfile(l)

RegistrySpec == RegistryInit /\ [][RegistryNext]_registryVars

-----------------------------------------------------------------------------
\* Every ID in use matches ID_PATTERN.
FourDigits == /\ \A c \in Range(candidates) : c.id <= LastNumber
              /\ \A l \in DOMAIN legacy : legacy[l] <= LastNumber

\* "An ID is assigned once and never changes or gets reused" (ids.py:8-9): over
\* all profile files ever written one login had one ID and one ID one login,
\* and candidates.json still says so.  It holds while there are FourDigits.
IdIsForever ==
    /\ \A x, y \in written : x.login = y.login <=> x.id = y.id
    /\ \A x \in written : IdOf(candidates, x.login) = x.id
=============================================================================
