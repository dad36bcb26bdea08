--------------------------- MODULE MCSocPipeline ---------------------------
(***************************************************************************)
(* The SOC worker in several scenarios, of which a run takes some:         *)
(*   faults     two workers whose claims may expire, one interruption      *)
(*   operators  one worker that may crash, rules that change, an operator  *)
(*   alone      one worker that nothing interrupts, events that are late   *)
(*   burst      two workers that nothing interrupts                        *)
(*   reworded   one worker, a rule that is worded anew between two events  *)
(*   twins      two workers that nothing interrupts, two events that say    *)
(*              they are the same                                          *)
(***************************************************************************)
EXTENDS SocPipelineProps

CONSTANTS Scenarios, FirstWorker

ASSUME FirstWorkerAssumption == FirstWorker \in Workers

VARIABLE scenario    \* it never changes

At(t, b)   == [time |-> t, type |-> "login", group |-> "host", body |-> b, origin |-> NoOrigin]
Item(e, t, b) == [event |-> e, payload |-> At(t, b)]

MCIdOf(a, e) == e

\* Three logins four seconds apart, the second one a root login.
Burst == {<<Item(1, 0, "user"), Item(2, 4, "root"), Item(3, 8, "user")>>}

\* The second of them arrives after the third.
Late == {<<Item(1, 0, "user"), Item(3, 8, "user")>>, <<Item(2, 4, "root"), Item(4, 9, "user")>>}

\* The third of them is sent on its own.
InTwo == {<<Item(1, 0, "user"), Item(2, 4, "root")>>, <<Item(3, 8, "user")>>}

\* The same root login, which names its origin, under two ids.
Twin(e) == [event |-> e, payload |-> [At(4, "root") EXCEPT !.origin = 1]]
SentTwice == {<<Twin(1), Item(2, 5, "root")>>, <<Twin(3)>>}

MCEventIds == 1..4
MCPayloads ==
  {At(t, b) : t \in {0, 3, 4, 5, 8, 9}, b \in {"user", "root"}} \cup {Twin(1).payload}

RootLogin(wording, others) ==
  [id |-> "root", wording |-> wording, type |-> "login", enabled |-> TRUE,
   verdict |-> [b \in [said : {"user", "root"}, origin : MCEventIds] |->
                  IF b.said = "root" THEN "match" ELSE others]]

ManyLogins(wording) ==
  [id |-> "many", wording |-> wording, type |-> "login", window |-> 6, inactivity |-> 6,
   minimum_count |-> 2, enabled |-> TRUE]

CatalogOf(version, wording, others) ==
  [version |-> version, detection |-> {RootLogin(wording, others)},
   correlation |-> {ManyLogins(wording)}]

OneCatalog == {CatalogOf(1, "first", "none")}

\* The second catalog words its rules anew.
Reworded == OneCatalog \cup {CatalogOf(2, "second", "none")}

\* The third makes a comparison that cannot be made.
Changing == Reworded \cup {CatalogOf(3, "second", "error")}

MCBatches == Burst \cup Late \cup InTwo \cup SentTwice

BatchesOf ==
  [faults |-> Burst, operators |-> InTwo, alone |-> Late, burst |-> Burst, reworded |-> InTwo,
   twins |-> SentTwice]

MCInit == PInit /\ scenario \in Scenarios

\* Who works, and what is sent.
Sends == \A c \in Certificates :
           upload'[c] = NoUpload \/ upload'[c].batch \in BatchesOf[scenario]
Working == IF scenario \in {"faults", "burst", "twins"} THEN Workers ELSE {FirstWorker}

MCNext ==
  /\ \/ PCollects /\ Sends
     \/ scenario \in {"faults", "operators"} /\ PStale
     \/ \E w \in Working : PWorks(w) /\ (scenario # "faults" => errors' = 0)
     \/ scenario = "operators" /\ \E w \in Working : PCrash(w)
     \/ scenario = "operators" /\ \E c \in Changing : InstallCatalog(c)
     \/ scenario = "reworded" /\ \E c \in Reworded : InstallCatalog(c)
     \/ /\ scenario = "operators"
        /\ \E id \in DOMAIN incidents, new \in Store!Statuses : Operate(id, new)
  /\ UNCHANGED scenario

MCSpec == MCInit /\ [][MCNext]_<<pvars, scenario>>

\* A worker that works alone and is not interrupted loses no burst, however late
\* the events of it arrive.
AloneLosesNoBurst == scenario = "alone" => NoBurstLost

=============================================================================
