------------------------ MODULE CallConcluderProofs ------------------------
(***************************************************************************)
(* Proofs about CallConcluder, for every number of calls, plugins and      *)
(* transmissions, every setting and every backoff jitter.                  *)
(***************************************************************************)
EXTENDS CallConcluder, SequenceTheorems, TLAPS

-----------------------------------------------------------------------------
(* Types.                                                                  *)

\* The file sets that conclude_call and remove_call_files leave are sets of
\* names.
LEMMA FilesType ==
  ASSUME NEW list \in Seq(Transmissions), NEW present \in SUBSET Names
  PROVE  /\ LeftByCreate(list) \in SUBSET Names
         /\ FilesAfter(list, present) \in SUBSET Names
         /\ CopiedFiles(list, present) \in SUBSET Names
<1>0. \A i \in DOMAIN list : list[i] \in Transmissions
  BY ElementOfSeq, LenProperties
<1>1. \A i \in DOMAIN list : list[i].name \in Names
  BY <1>0 DEF Transmissions
<1>2. LeftByCreate(list) \in SUBSET Names
  BY <1>1 DEF LeftByCreate, NamesAt
<1>3. FilesAfter(list, present) \in SUBSET Names
  BY DEF FilesAfter
<1>4. CopiedFiles(list, present) \in SUBSET Names
  BY DEF CopiedFiles
<1> QED BY <1>2, <1>3, <1>4

\* remove_call_files keeps the types of the file variables.
LEMMA RemoveType ==
  ASSUME TypeOK, NEW c \in Calls, NEW list \in Seq(Transmissions),
         NEW present \in SUBSET Names, remove_call_files(c, list, present)
  PROVE  /\ temp' \in [Calls -> SUBSET Names]
         /\ capture' \in [Calls -> SUBSET Names]
         /\ audio' \subseteq Calls
<1>1. /\ FilesAfter(list, present) \in SUBSET Names
      /\ CopiedFiles(list, present) \in SUBSET Names
  BY FilesType
<1>2. temp' \in [Calls -> SUBSET Names]
  BY <1>1 DEF remove_call_files, TypeOK
<1>3. capture' \in [Calls -> SUBSET Names]
  BY <1>1 DEF remove_call_files, TypeOK
<1>4. audio' \subseteq Calls
  BY DEF remove_call_files, TypeOK
<1> QED BY <1>2, <1>3, <1>4

\* A worker that goes on is again a worker.
LEMMA WorkerTypes ==
  ASSUME NEW w \in Workers
  PROVE  /\ w.call \in Calls /\ w.retry_attempt \in Nat
         /\ \A status \in {"SUCCESS", "RETRY", "FAILED", "EXCEPTION"} :
              Ended(w, status) \in Workers
         /\ w.at # "ready" =>
              /\ w.next \in Nat \ {0}
              /\ w.error \in Int
              /\ w = [call |-> w.call, retry_attempt |-> w.retry_attempt,
                      at |-> w.at, next |-> w.next, error |-> w.error]
              /\ [w EXCEPT !.at = "plugins"] \in Workers
              /\ [w EXCEPT !.next = @ + 1] \in Workers
              /\ \A result \in Int :
                   [w EXCEPT !.next = @ + 1, !.error = @ + result] \in Workers
         /\ w.at = "ready" =>
              w.status \in {"SUCCESS", "RETRY", "FAILED", "EXCEPTION"}
         /\ w.at \in {"convert", "plugins", "ready"}
<1>1. /\ w.call \in Calls /\ w.retry_attempt \in Nat
      /\ w.at \in {"convert", "plugins", "ready"}
      /\ w.at = "ready" =>
           w.status \in {"SUCCESS", "RETRY", "FAILED", "EXCEPTION"}
  BY DEF Workers
<1>2. \A status \in {"SUCCESS", "RETRY", "FAILED", "EXCEPTION"} :
        Ended(w, status) \in Workers
  BY <1>1 DEF Ended, Workers
<1>3. ASSUME w.at # "ready"
      PROVE  w \in [call : Calls, retry_attempt : Nat,
                    at : {"convert", "plugins"}, next : Nat \ {0}, error : Int]
  BY <1>3 DEF Workers
<1>4. ASSUME w.at # "ready"
      PROVE  /\ w.next \in Nat \ {0}
             /\ w.error \in Int
             /\ w = [call |-> w.call, retry_attempt |-> w.retry_attempt,
                     at |-> w.at, next |-> w.next, error |-> w.error]
             /\ [w EXCEPT !.at = "plugins"] \in Workers
             /\ [w EXCEPT !.next = @ + 1] \in Workers
             /\ \A result \in Int :
                  [w EXCEPT !.next = @ + 1, !.error = @ + result] \in Workers
  <2>1. /\ w.next \in Nat \ {0}
        /\ w.error \in Int
        /\ w = [call |-> w.call, retry_attempt |-> w.retry_attempt,
                at |-> w.at, next |-> w.next, error |-> w.error]
    BY <1>3, <1>4
  <2>2. [w EXCEPT !.at = "plugins"] \in Workers
    BY <1>3, <1>4 DEF Workers
  <2>3. [w EXCEPT !.next = @ + 1] \in Workers
    BY <1>3, <1>4 DEF Workers
  <2>4. ASSUME NEW result \in Int
        PROVE  [w EXCEPT !.next = @ + 1, !.error = @ + result] \in Workers
    <3>1. w.next + 1 \in Nat \ {0} /\ w.error + result \in Int
      BY <2>1
    <3>2. [w EXCEPT !.next = @ + 1, !.error = @ + result]
            \in [call : Calls, retry_attempt : Nat,
                 at : {"convert", "plugins"}, next : Nat \ {0}, error : Int]
      BY <1>3, <1>4, <3>1
    <3> QED BY <3>2 DEF Workers
  <2> QED BY <2>1, <2>2, <2>3, <2>4
<1> QED BY <1>1, <1>2, <1>4

\* Every backoff is a number of seconds.
LEMMA BackoffType ==
  ASSUME NEW n \in Nat
  PROVE  Backoff(n) \in Int
<1> DEFINE seconds == 60 * n
<1>1. seconds \in Int
  OBVIOUS
<1> HIDE DEF seconds
<1>2. (IF seconds % 4 < 2 THEN seconds + 2 ELSE seconds - 2) \in Int
  BY <1>1
<1> QED BY <1>2 DEF Backoff, seconds

\* What a retry is put on the list with.
LEMMA RetryTypes ==
  ASSUME TypeOK, NEW jitter \in [Retried(Ready) -> Jitter]
  PROVE  \A w \in Retried(Ready) : NextRetry(w, jitter[w]) \in Retries
<1> SUFFICES ASSUME NEW w \in Retried(Ready)
             PROVE  NextRetry(w, jitter[w]) \in Retries
  OBVIOUS
<1>1. w \in Workers
  BY DEF Retried, Ready, TypeOK
<1>2. w.call \in Calls /\ w.retry_attempt + 1 \in Nat
  <2>1. w.call \in Calls /\ w.retry_attempt \in Nat
    BY <1>1 DEF Workers
  <2> QED BY <2>1
<1>3. Backoff(w.retry_attempt + 1) \in Int
  BY <1>2, BackoffType
<1>4. jitter[w] \in Int
  <2>1. jitter[w] \in Jitter
    OBVIOUS
  <2>2. Jitter \subseteq Nat
    BY ConcluderAssumption DEF ConcluderAssumption
  <2>3. jitter[w] \in Nat
    BY <2>1, <2>2
  <2> QED BY <2>3
<1>5. now + Backoff(w.retry_attempt + 1) + jitter[w] \in Int
  BY <1>3, <1>4 DEF TypeOK
<1> QED BY <1>2, <1>5 DEF NextRetry, Retries

\* The types are kept when a call is concluded.
LEMMA ConcludeType ==
  ASSUME TypeOK, NEW c \in Calls, NEW list \in Recordings,
         conclude_call(c, list)
  PROVE  TypeOK'
<1>1. list \in Seq(Transmissions)
  BY ConcluderAssumption DEF ConcluderAssumption
<1>2. LeftByCreate(list) \in SUBSET Names
  BY <1>1, FilesType
<1>3. recorded' \in [Calls -> Seq(Transmissions)]
  BY <1>1 DEF conclude_call, TypeOK
<1>4. /\ main' \in MainStates
      /\ call_data_workers' \subseteq Workers
      /\ fate' \in [Calls -> Fates]
      /\ tries' \in [Calls -> Nat]
      /\ temp' \in [Calls -> SUBSET Names]
      /\ capture' \in [Calls -> SUBSET Names]
      /\ audio' \subseteq Calls
  <2>1. CASE Superseded(c, list)
    <3>1. remove_call_files(c, list, LeftByCreate(list))
      BY <2>1 DEF Superseded
    <3> QED BY <2>1, <3>1, <1>1, <1>2, RemoveType
            DEF Superseded, TypeOK, MainStates, Fates
  <2>2. CASE NoTransmissions(c, list)
    BY <2>2, <1>2 DEF NoTransmissions, TypeOK, Fates
  <2>3. CASE TooShort(c, list)
    <3>1. remove_call_files(c, list, LeftByCreate(list))
      BY <2>3 DEF TooShort
    <3> QED BY <2>3, <3>1, <1>1, <1>2, RemoveType
            DEF TooShort, TypeOK, MainStates, Fates
  <2>4. CASE StartWorker(c, list)
    <3>1. FirstTry(c) \in Workers
      BY DEF FirstTry, Workers
    <3> QED BY <2>4, <3>1, <1>2 DEF StartWorker, TypeOK, Fates
  <2> QED BY <2>1, <2>2, <2>3, <2>4 DEF conclude_call
<1> QED BY <1>3, <1>4 DEF conclude_call, TypeOK

\* The types are kept by a pass over the futures and the retry list.
LEMMA ManageType ==
  ASSUME TypeOK, manage_call_data_workers
  PROVE  TypeOK'
<1>1. PICK jitter \in [Retried(Ready) -> Jitter] :
        RestartDue(retry_call_list
                     \cup {NextRetry(w, jitter[w]) : w \in Retried(Ready)})
  BY DEF manage_call_data_workers
<1> DEFINE list == retry_call_list
                     \cup {NextRetry(w, jitter[w]) : w \in Retried(Ready)}
           due == {r \in list : r.process_call_time <= now}
<1>2. list \subseteq Retries
  BY RetryTypes DEF TypeOK
<1>3. retry_call_list' = list \ due
  BY <1>1 DEF RestartDue
<1>4. call_data_workers' = (call_data_workers \ Ready)
                             \cup {Retry(r) : r \in due}
  BY <1>1 DEF RestartDue
<1>5. tries' = [c \in Calls |-> IF \E r \in due : r.call = c
                                THEN tries[c] + 1 ELSE tries[c]]
  BY <1>1 DEF RestartDue
<1> HIDE DEF list
<1>6. \A r \in Retries : Retry(r) \in Workers
  BY DEF Retries, Retry, Workers
<1>7. call_data_workers' \subseteq Workers /\ retry_call_list' \subseteq Retries
  BY <1>2, <1>3, <1>4, <1>6 DEF TypeOK
<1>8. tries' \in [Calls -> Nat]
  BY <1>5 DEF TypeOK
<1>9. fate' \in [Calls -> Fates]
  <2>1. \A w : FateOf(w) \in Fates
    BY DEF FateOf, Fates
  <2> QED BY <2>1 DEF manage_call_data_workers, TypeOK
<1> QED BY <1>7, <1>8, <1>9 DEF manage_call_data_workers, TypeOK, files

\* The types are kept by every step of a worker.
LEMMA WorkType ==
  ASSUME TypeOK, NEW w \in call_data_workers, Work(w)
  PROVE  TypeOK'
<1>1. w \in Workers
  BY DEF TypeOK
<1>2. ASSUME NEW w2 \in Workers, Proceed(w, w2)
      PROVE  call_data_workers' \subseteq Workers
  BY <1>2 DEF Proceed, TypeOK
<1>3. CASE \E combined, converted \in BOOLEAN :
             ConvertMedia(w, combined, converted)
  <2>1. PICK combined, converted \in BOOLEAN :
          ConvertMedia(w, combined, converted)
    BY <1>3
  <2>2. /\ Ended(w, "FAILED") \in Workers
        /\ [w EXCEPT !.at = "plugins"] \in Workers
    BY <1>1, <2>1, WorkerTypes DEF ConvertMedia
  <2>3. call_data_workers' \subseteq Workers
    BY <2>1, <2>2, <1>2 DEF ConvertMedia
  <2>4. audio' \subseteq Calls
    <3>1. w.call \in Calls /\ audio \subseteq Calls
      BY <1>1, WorkerTypes DEF TypeOK
    <3>2. audio' \in {audio, audio \cup {w.call}}
      BY <2>1 DEF ConvertMedia
    <3> QED BY <3>1, <3>2
  <2> QED BY <2>1, <2>3, <2>4 DEF ConvertMedia, TypeOK, history
<1>4. CASE \E result \in Results : CallEnd(w, result)
  <2>1. PICK result \in Results : CallEnd(w, result)
    BY <1>4
  <2>2. /\ [w EXCEPT !.next = @ + 1, !.error = @ + result] \in Workers
        /\ w.next \in Nat \ {0}
        /\ w.call \in Calls
    BY <1>1, <2>1, WorkerTypes, ConcluderAssumption
       DEF CallEnd, ConcluderAssumption
  <2>3. call_data_workers' \subseteq Workers
    BY <2>1, <2>2, <1>2 DEF CallEnd
  <2>4. w.next \in Plugins
    BY <2>1, <2>2, ConcluderAssumption
       DEF CallEnd, Plugins, ConcluderAssumption
  <2>5. accepted' \in [Calls -> SUBSET Plugins]
    BY <2>1, <2>2, <2>4 DEF CallEnd, TypeOK
  <2> QED BY <2>1, <2>3, <2>5 DEF CallEnd, TypeOK, files
<1>5. CASE SkipPlugin(w)
  <2>1. [w EXCEPT !.next = @ + 1] \in Workers
    BY <1>1, <1>5, WorkerTypes DEF SkipPlugin
  <2>2. call_data_workers' \subseteq Workers
    BY <1>5, <2>1, <1>2 DEF SkipPlugin
  <2> QED BY <1>5, <2>2 DEF SkipPlugin, TypeOK, files, history
<1>6. CASE WorkerSucceeds(w)
  <2> DEFINE list == recorded[w.call]
             present == temp[w.call]
             status == IF CopyThrows(list, present) THEN "EXCEPTION"
                       ELSE "SUCCESS"
  <2>1. /\ list \in Seq(Transmissions)
        /\ present \in SUBSET Names
        /\ w.call \in Calls
    BY <1>1, WorkerTypes DEF TypeOK
  <2>2. remove_call_files(w.call, list, present)
    BY <1>6 DEF WorkerSucceeds
  <2>3. Ended(w, status) \in Workers
    BY <1>1, WorkerTypes
  <2>4. call_data_workers' \subseteq Workers
    BY <1>6, <2>3, <1>2 DEF WorkerSucceeds
  <2>5. /\ temp' \in [Calls -> SUBSET Names]
        /\ capture' \in [Calls -> SUBSET Names]
        /\ audio' \subseteq Calls
    BY <2>1, <2>2, RemoveType
  <2> QED BY <1>6, <2>4, <2>5 DEF WorkerSucceeds, TypeOK, history
<1>7. CASE WorkerRetries(w)
  <2>1. Ended(w, "RETRY") \in Workers
    BY <1>1, WorkerTypes
  <2>2. call_data_workers' \subseteq Workers
    BY <1>7, <2>1, <1>2 DEF WorkerRetries
  <2> QED BY <1>7, <2>2 DEF WorkerRetries, TypeOK, files, history
<1> QED BY <1>3, <1>4, <1>5, <1>6, <1>7 DEF Work

\* TypeOK is inductive.
LEMMA TypeOKInductive == TypeOK /\ [Next]_vars => TypeOK'
<1> SUFFICES ASSUME TypeOK, [Next]_vars
             PROVE  TypeOK'
  OBVIOUS
<1>1. CASE \E c \in Calls, list \in Recordings : conclude_call(c, list)
  BY <1>1, ConcludeType
<1>2. CASE manage_call_data_workers
  BY <1>2, ManageType
<1>3. CASE TerminatedByException
  BY <1>3 DEF TerminatedByException, TypeOK, MainStates, jobs, files, history
<1>4. CASE Wait
  <2>1. now' \in Int
    BY <1>4 DEF Wait, TypeOK, Retries
  <2> QED BY <1>4, <2>1 DEF Wait, TypeOK, jobs, files, history
<1>5. CASE \E w \in call_data_workers : Work(w)
  BY <1>5, WorkType
<1>6. CASE Exit
  BY <1>6 DEF Exit, TypeOK, MainStates, jobs, files, history
<1>7. CASE ExitSlept
  BY <1>7 DEF ExitSlept, TypeOK, MainStates, jobs, files, history
<1>8. CASE \E stopped \in BOOLEAN : StopPlugin(stopped)
  <2>1. PICK stopped \in BOOLEAN : StopPlugin(stopped)
    BY <1>8
  <2>2. main' \in MainStates
    BY <2>1 DEF StopPlugin, TypeOK, MainStates
  <2>3. plugin' \in [Plugins -> {"RUNNING", "FAILED", "STOPPED"}]
    BY <2>1 DEF StopPlugin, TypeOK
  <2> QED BY <2>1, <2>2, <2>3 DEF StopPlugin, TypeOK, jobs, files, history
<1>9. CASE Gone
  BY <1>9 DEF Gone, TypeOK, MainStates, jobs, files, history
<1>10. CASE UNCHANGED vars
  BY <1>10 DEF vars, TypeOK, jobs, files, history
<1> QED BY <1>1, <1>2, <1>3, <1>4, <1>5, <1>6, <1>7, <1>8, <1>9, <1>10 DEF Next

\* The initial states are well typed.
LEMMA InitType == Init => TypeOK
BY EmptySeq DEF Init, TypeOK, MainStates, Fates, Plugins

\* Every variable of the call concluder keeps its type, whatever the calls,
\* plugins and settings.
THEOREM TypeCorrect == Spec => []TypeOK
<1> QED BY InitType, TypeOKInductive, PTL DEF Spec

-----------------------------------------------------------------------------
(* Jobs.                                                                   *)

\* The strengthening: the retry counter of a job is the number of workers
\* that were started for its call, less the one that is running.
Attempts ==
  /\ \A w \in call_data_workers : /\ tries[w.call] = w.retry_attempt + 1
                                  /\ w.retry_attempt <= MAX_RETRY
  /\ \A r \in retry_call_list : /\ tries[r.call] = r.retry_attempt
                                /\ r.retry_attempt <= MAX_RETRY

JobInv == OneJobPerCall /\ Attempts /\ TriesAreBounded

\* Concluding a call, which has no job yet, gives it at most one.
LEMMA ConcludeJobs ==
  ASSUME TypeOK, JobInv, NEW c \in Calls, NEW list \in Recordings,
         conclude_call(c, list)
  PROVE  JobInv'
<1>1. /\ fate[c] = "recording"
      /\ retry_call_list' = retry_call_list
  BY DEF conclude_call
<1>2. /\ \A w \in call_data_workers : w.call # c
      /\ \A r \in retry_call_list : r.call # c
  BY <1>1 DEF JobInv, OneJobPerCall
<1>3. CASE /\ fate' = [fate EXCEPT ![c] = "discarded"]
           /\ UNCHANGED <<call_data_workers, tries>>
  <2>1. /\ fate'[c] = "discarded"
        /\ \A d \in Calls \ {c} : fate'[d] = fate[d]
    BY <1>3 DEF TypeOK
  <2>2. OneJobPerCall'
    BY <1>1, <1>2, <1>3, <2>1 DEF JobInv, OneJobPerCall
  <2>3. Attempts'
    BY <1>1, <1>3 DEF JobInv, Attempts
  <2>4. TriesAreBounded'
    BY <1>3, <2>1 DEF JobInv, TriesAreBounded
  <2> QED BY <2>2, <2>3, <2>4 DEF JobInv
<1>4. CASE StartWorker(c, list)
  <2> DEFINE first == FirstTry(c)
  <2>1. first.call = c /\ first.retry_attempt = 0
    BY DEF FirstTry
  <2>2. /\ call_data_workers' = call_data_workers \cup {first}
        /\ fate' = [fate EXCEPT ![c] = "trying"]
        /\ tries' = [tries EXCEPT ![c] = 1]
    BY <1>4 DEF StartWorker
  <2> HIDE DEF first
  <2>3. OneJobPerCall'
    <3>1. /\ fate'[c] = "trying"
          /\ \A d \in Calls \ {c} : fate'[d] = fate[d]
      BY <2>2 DEF TypeOK
    <3>2. ASSUME NEW d \in Calls
          PROVE  fate'[d] = "trying" <=>
                   \/ \E w \in call_data_workers' : w.call = d
                   \/ \E r \in retry_call_list' : r.call = d
      BY <1>1, <2>1, <2>2, <3>1 DEF JobInv, OneJobPerCall
    <3>3. \A v, w \in call_data_workers' : v.call = w.call => v = w
      BY <1>2, <2>1, <2>2 DEF JobInv, OneJobPerCall
    <3>4. \A w \in call_data_workers', r \in retry_call_list' :
            w.call # r.call
      BY <1>1, <1>2, <2>1, <2>2 DEF JobInv, OneJobPerCall
    <3>5. \A q, r \in retry_call_list' : q.call = r.call => q = r
      BY <1>1 DEF JobInv, OneJobPerCall
    <3> QED BY <3>2, <3>3, <3>4, <3>5 DEF OneJobPerCall
  <2>4. Attempts'
    <3>1. \A w \in call_data_workers : w.call \in Calls
      BY DEF TypeOK, Workers
    <3>2. \A r \in retry_call_list : r.call \in Calls
      BY DEF TypeOK, Retries
    <3> QED BY <1>1, <1>2, <2>1, <2>2, <3>1, <3>2
            DEF TypeOK, JobInv, Attempts, MAX_RETRY
  <2>5. TriesAreBounded'
    BY <2>2 DEF TypeOK, JobInv, TriesAreBounded, MAX_RETRY
  <2> QED BY <2>3, <2>4, <2>5 DEF JobInv
<1>5. CASE Superseded(c, list) \/ NoTransmissions(c, list) \/ TooShort(c, list)
  BY <1>3, <1>5 DEF Superseded, NoTransmissions, TooShort
<1> QED BY <1>4, <1>5 DEF conclude_call

\* A worker that goes on stays the only job of its call.
LEMMA WorkerGoesOn ==
  ASSUME TypeOK, JobInv, NEW w \in call_data_workers, NEW w2,
         w2.call = w.call, w2.retry_attempt = w.retry_attempt,
         Proceed(w, w2), UNCHANGED <<retry_call_list, fate, tries>>
  PROVE  JobInv'
<1>1. call_data_workers' = (call_data_workers \ {w}) \cup {w2}
  BY DEF Proceed
<1>2. OneJobPerCall'
  BY <1>1 DEF JobInv, OneJobPerCall
<1>3. Attempts'
  BY <1>1 DEF JobInv, Attempts
<1>4. TriesAreBounded'
  BY DEF JobInv, TriesAreBounded
<1> QED BY <1>2, <1>3, <1>4 DEF JobInv

LEMMA WorkJobs ==
  ASSUME TypeOK, JobInv, NEW w \in call_data_workers, Work(w)
  PROVE  JobInv'
<1>1. w \in Workers
  BY DEF TypeOK
<1>2. \A status : /\ Ended(w, status).call = w.call
                  /\ Ended(w, status).retry_attempt = w.retry_attempt
  BY DEF Ended
<1>3. PICK w2 : /\ w2.call = w.call
                /\ w2.retry_attempt = w.retry_attempt
                /\ Proceed(w, w2)
                /\ UNCHANGED <<retry_call_list, fate, tries>>
  <2>1. CASE \E combined, converted \in BOOLEAN :
               ConvertMedia(w, combined, converted)
    <3>1. PICK combined, converted \in BOOLEAN :
            ConvertMedia(w, combined, converted)
      BY <2>1
    <3>2. w = [call |-> w.call, retry_attempt |-> w.retry_attempt,
               at |-> w.at, next |-> w.next, error |-> w.error]
      BY <1>1, <3>1, WorkerTypes DEF ConvertMedia
    <3>3. /\ [w EXCEPT !.at = "plugins"].call = w.call
          /\ [w EXCEPT !.at = "plugins"].retry_attempt = w.retry_attempt
      BY <3>2
    <3> QED BY <3>1, <3>3, <1>2 DEF ConvertMedia, history
  <2>2. CASE \E result \in Results : CallEnd(w, result)
    <3>1. PICK result \in Results : CallEnd(w, result)
      BY <2>2
    <3> DEFINE w2 == [w EXCEPT !.next = @ + 1, !.error = @ + result]
    <3>2. w = [call |-> w.call, retry_attempt |-> w.retry_attempt,
               at |-> w.at, next |-> w.next, error |-> w.error]
      BY <1>1, <3>1, WorkerTypes DEF CallEnd
    <3>3. w2.call = w.call /\ w2.retry_attempt = w.retry_attempt
      BY <3>2
    <3> QED BY <3>1, <3>3 DEF CallEnd
  <2>3. CASE SkipPlugin(w)
    <3>1. w = [call |-> w.call, retry_attempt |-> w.retry_attempt,
               at |-> w.at, next |-> w.next, error |-> w.error]
      BY <1>1, <2>3, WorkerTypes DEF SkipPlugin
    <3>2. /\ [w EXCEPT !.next = @ + 1].call = w.call
          /\ [w EXCEPT !.next = @ + 1].retry_attempt = w.retry_attempt
      BY <3>1
    <3> QED BY <2>3, <3>2 DEF SkipPlugin, history
  <2>4. CASE WorkerSucceeds(w)
    BY <2>4, <1>2 DEF WorkerSucceeds, history
  <2>5. CASE WorkerRetries(w)
    BY <2>5, <1>2 DEF WorkerRetries, history
  <2> QED BY <2>1, <2>2, <2>3, <2>4, <2>5 DEF Work
<1> QED BY <1>3, WorkerGoesOn

\* The pass over the futures and the retry list.  Every call that is being
\* tried goes from one place to one place, or is settled.
LEMMA ManageJobs ==
  ASSUME TypeOK, JobInv, manage_call_data_workers
  PROVE  JobInv'
<1>1. PICK jitter \in [Retried(Ready) -> Jitter] :
        RestartDue(retry_call_list
                     \cup {NextRetry(w, jitter[w]) : w \in Retried(Ready)})
  BY DEF manage_call_data_workers
<1> DEFINE list == retry_call_list
                     \cup {NextRetry(w, jitter[w]) : w \in Retried(Ready)}
           due == {r \in list : r.process_call_time <= now}
<1>2. /\ retry_call_list' = list \ due
      /\ call_data_workers' = (call_data_workers \ Ready)
                                \cup {Retry(r) : r \in due}
      /\ tries' = [c \in Calls |-> IF \E r \in due : r.call = c
                                   THEN tries[c] + 1 ELSE tries[c]]
  BY <1>1 DEF RestartDue
<1>3. /\ \A w \in Ready : w.status # "EXCEPTION"
      /\ fate' = [c \in Calls |->
                    IF \E w \in Ready : w.call = c
                    THEN FateOf(CHOOSE w \in Ready : w.call = c)
                    ELSE fate[c]]
  BY DEF manage_call_data_workers
<1>4. \A q \in list :
        \/ q \in retry_call_list
        \/ \E w \in Retried(Ready) : /\ q.call = w.call
                                     /\ q.retry_attempt = w.retry_attempt + 1
                                     /\ q = NextRetry(w, jitter[w])
  BY DEF NextRetry
<1>5. ASSUME NEW w \in Retried(Ready)
      PROVE  \E q \in list : q.call = w.call
  <2>1. NextRetry(w, jitter[w]) \in list
    OBVIOUS
  <2>2. NextRetry(w, jitter[w]).call = w.call
    BY DEF NextRetry
  <2> QED BY <2>1, <2>2
<1>6. due \subseteq list
  OBVIOUS
<1>7. list \subseteq Retries
  BY RetryTypes DEF TypeOK
<1> HIDE DEF list, due
<1>8. /\ Ready \subseteq call_data_workers
      /\ \A w \in Ready : w.at = "ready"
      /\ Retried(Ready) \subseteq Ready
      /\ \A w \in Retried(Ready) : w.status = "RETRY" /\ ~GivesUp(w)
  BY DEF Ready, Retried
<1>9. /\ \A w \in call_data_workers :
           w.call \in Calls /\ w.retry_attempt \in Nat
      /\ \A q \in list : q.call \in Calls /\ q.retry_attempt \in Nat
  <2>1. \A w \in Workers : w.call \in Calls /\ w.retry_attempt \in Nat
    BY DEF Workers
  <2>2. \A q \in Retries : q.call \in Calls /\ q.retry_attempt \in Nat
    BY DEF Retries
  <2> QED BY <2>1, <2>2, <1>7 DEF TypeOK
<1>10. \A q, r \in list : q.call = r.call => q = r
  BY <1>4, <1>8 DEF JobInv, OneJobPerCall
<1>11. \A q \in list : \A w \in call_data_workers \ Ready : w.call # q.call
  BY <1>4, <1>8 DEF JobInv, OneJobPerCall
<1>12. \A q \in list : /\ tries[q.call] = q.retry_attempt
                       /\ q.retry_attempt <= MAX_RETRY
  <2> SUFFICES ASSUME NEW q \in list
               PROVE  /\ tries[q.call] = q.retry_attempt
                      /\ q.retry_attempt <= MAX_RETRY
    OBVIOUS
  <2>1. CASE q \in retry_call_list
    BY <2>1 DEF JobInv, Attempts
  <2>2. ASSUME NEW w \in Retried(Ready), q.call = w.call,
               q.retry_attempt = w.retry_attempt + 1
        PROVE  /\ tries[q.call] = q.retry_attempt
               /\ q.retry_attempt <= MAX_RETRY
    BY <2>2, <1>8, <1>9 DEF JobInv, Attempts, GivesUp, MAX_RETRY
  <2> QED BY <2>1, <2>2, <1>4
<1>13. \A r : /\ Retry(r).call = r.call
              /\ Retry(r).retry_attempt = r.retry_attempt
  BY DEF Retry
<1>14. \A w \in Ready : fate'[w.call] = FateOf(w)
  <2> SUFFICES ASSUME NEW w \in Ready
               PROVE  fate'[w.call] = FateOf(w)
    OBVIOUS
  <2>1. (CHOOSE v \in Ready : v.call = w.call) = w
    BY <1>8 DEF JobInv, OneJobPerCall
  <2> QED BY <2>1, <1>3, <1>8, <1>9
<1>15. \A c \in Calls : (\A w \in Ready : w.call # c) => fate'[c] = fate[c]
  BY <1>3
<1>16. \A w \in Ready : FateOf(w) = "trying" <=> w \in Retried(Ready)
  <2> SUFFICES ASSUME NEW w \in Ready
               PROVE  FateOf(w) = "trying" <=> w \in Retried(Ready)
    OBVIOUS
  <2>1. w.status \in {"SUCCESS", "RETRY", "FAILED"}
    <3>1. w \in Workers /\ w.at = "ready"
      BY <1>8 DEF TypeOK
    <3> QED BY <3>1, <1>3, WorkerTypes
  <2> QED BY <2>1 DEF FateOf, Retried
<1>17. OneJobPerCall'
  <2>1. \A v, w \in call_data_workers' : v.call = w.call => v = w
    BY <1>2, <1>6, <1>10, <1>11, <1>13 DEF JobInv, OneJobPerCall
  <2>2. \A q, r \in retry_call_list' : q.call = r.call => q = r
    BY <1>2, <1>10
  <2>3. \A w \in call_data_workers', r \in retry_call_list' : w.call # r.call
    BY <1>2, <1>6, <1>10, <1>11, <1>13
  <2>4. ASSUME NEW c \in Calls
        PROVE  fate'[c] = "trying" <=>
                 \/ \E w \in call_data_workers' : w.call = c
                 \/ \E r \in retry_call_list' : r.call = c
    <3>1. (\/ \E w \in call_data_workers' : w.call = c
           \/ \E r \in retry_call_list' : r.call = c)
          <=> \/ \E w \in call_data_workers \ Ready : w.call = c
              \/ \E q \in list : q.call = c
      BY <1>2, <1>6, <1>13
    <3>2. ASSUME NEW w \in Ready, w.call = c
          PROVE  fate'[c] = "trying" <=>
                   \/ \E v \in call_data_workers \ Ready : v.call = c
                   \/ \E q \in list : q.call = c
      <4>1. fate'[c] = "trying" <=> w \in Retried(Ready)
        BY <3>2, <1>14, <1>16
      <4>2. \A v \in call_data_workers \ Ready : v.call # c
        BY <3>2, <1>8 DEF JobInv, OneJobPerCall
      <4>3. w \in Retried(Ready) => \E q \in list : q.call = c
        BY <3>2, <1>5
      <4>4. (\E q \in list : q.call = c) => w \in Retried(Ready)
        BY <3>2, <1>4, <1>8 DEF JobInv, OneJobPerCall
      <4> QED BY <4>1, <4>2, <4>3, <4>4
    <3>3. ASSUME \A w \in Ready : w.call # c
          PROVE  fate'[c] = "trying" <=>
                   \/ \E v \in call_data_workers \ Ready : v.call = c
                   \/ \E q \in list : q.call = c
      <4>1. fate'[c] = fate[c]
        BY <3>3, <1>15
      <4>2. (\E v \in call_data_workers \ Ready : v.call = c)
            <=> \E v \in call_data_workers : v.call = c
        BY <3>3
      <4>3. (\E q \in list : q.call = c)
            <=> \E q \in retry_call_list : q.call = c
        <5>1. retry_call_list \subseteq list
          BY DEF list
        <5> QED BY <5>1, <3>3, <1>4, <1>8
      <4> QED BY <4>1, <4>2, <4>3 DEF JobInv, OneJobPerCall
    <3> QED BY <3>1, <3>2, <3>3
  <2>5. \A c \in Calls :
          fate'[c] = "trying" <=>
            \/ \E w \in call_data_workers' : w.call = c
            \/ \E r \in retry_call_list' : r.call = c
    BY <2>4
  <2> QED BY <2>1, <2>2, <2>3, <2>5 DEF OneJobPerCall
<1>18. Attempts'
  <2>1. ASSUME NEW r \in retry_call_list'
        PROVE  tries'[r.call] = r.retry_attempt /\ r.retry_attempt <= MAX_RETRY
    <3>1. r \in list /\ ~\E q \in due : q.call = r.call
      BY <1>2, <1>6, <1>10
    <3> QED BY <3>1, <1>2, <1>9, <1>12
  <2>2. ASSUME NEW w \in call_data_workers \ Ready
        PROVE  /\ tries'[w.call] = w.retry_attempt + 1
               /\ w.retry_attempt <= MAX_RETRY
    <3>1. ~\E q \in due : q.call = w.call
      BY <1>6, <1>11
    <3> QED BY <3>1, <1>2, <1>9 DEF JobInv, Attempts
  <2>3. ASSUME NEW r \in due
        PROVE  /\ tries'[r.call] = r.retry_attempt + 1
               /\ r.retry_attempt <= MAX_RETRY
    BY <1>2, <1>6, <1>9, <1>12
  <2>4. ASSUME NEW w \in call_data_workers'
        PROVE  /\ tries'[w.call] = w.retry_attempt + 1
               /\ w.retry_attempt <= MAX_RETRY
    <3>1. CASE w \in call_data_workers \ Ready
      BY <3>1, <2>2
    <3>2. ASSUME NEW r \in due, w = Retry(r)
          PROVE  /\ tries'[w.call] = w.retry_attempt + 1
                 /\ w.retry_attempt <= MAX_RETRY
      <4>1. w.call = r.call /\ w.retry_attempt = r.retry_attempt
        BY <3>2, <1>13
      <4> QED BY <4>1, <2>3
    <3> QED BY <3>1, <3>2, <1>2
  <2> QED BY <2>1, <2>4 DEF Attempts
<1>19. TriesAreBounded'
  <2> SUFFICES ASSUME NEW c \in Calls
               PROVE  /\ tries'[c] <= MAX_RETRY + 1
                      /\ fate'[c] = "dropped" => tries'[c] = MAX_RETRY + 1
    BY DEF TriesAreBounded
  <2>1. tries'[c] <= MAX_RETRY + 1
    <3>1. ASSUME NEW r \in due, r.call = c
          PROVE  tries[c] <= MAX_RETRY
      BY <3>1, <1>6, <1>12
    <3>2. tries[c] \in Nat /\ tries[c] <= MAX_RETRY + 1
      BY DEF JobInv, TriesAreBounded, TypeOK
    <3>3. CASE \E r \in due : r.call = c
      <4>1. tries'[c] = tries[c] + 1
        BY <1>2, <3>3
      <4> QED BY <3>1, <3>2, <3>3, <4>1 DEF MAX_RETRY
    <3>4. CASE ~\E r \in due : r.call = c
      <4>1. tries'[c] = tries[c]
        BY <1>2, <3>4
      <4> QED BY <3>2, <4>1
    <3> QED BY <3>3, <3>4
  <2>2. ASSUME fate'[c] = "dropped"
        PROVE  tries'[c] = MAX_RETRY + 1
    <3>1. ASSUME NEW w \in Ready, w.call = c
          PROVE  tries[c] = MAX_RETRY + 1
      <4>1. GivesUp(w)
        <5>1. FateOf(w) = "dropped"
          BY <3>1, <2>2, <1>14
        <5> QED BY <5>1 DEF FateOf
      <4>2. tries[c] = w.retry_attempt + 1
        BY <3>1, <1>8 DEF JobInv, Attempts
      <4> QED BY <4>1, <4>2, <1>8, <1>9
              DEF GivesUp, JobInv, TriesAreBounded, TypeOK, MAX_RETRY
    <3>2. ASSUME \A w \in Ready : w.call # c
          PROVE  tries[c] = MAX_RETRY + 1
      BY <3>2, <2>2, <1>15 DEF JobInv, TriesAreBounded
    <3>3. ~\E r \in due : r.call = c
      <4> SUFFICES ASSUME NEW r \in due, r.call = c
                   PROVE  FALSE
        OBVIOUS
      <4>1. tries[c] <= MAX_RETRY
        BY <1>6, <1>12
      <4>2. tries[c] = MAX_RETRY + 1
        BY <3>1, <3>2
      <4> QED BY <4>1, <4>2 DEF MAX_RETRY
    <3> QED BY <3>1, <3>2, <3>3, <1>2
  <2> QED BY <2>1, <2>2
<1> QED BY <1>17, <1>18, <1>19 DEF JobInv

\* JobInv is inductive.
LEMMA JobsInductive == TypeOK /\ JobInv /\ [Next]_vars => JobInv'
<1> SUFFICES ASSUME TypeOK, JobInv, [Next]_vars
             PROVE  JobInv'
  OBVIOUS
<1>1. CASE \E c \in Calls, list \in Recordings : conclude_call(c, list)
  BY <1>1, ConcludeJobs
<1>2. CASE manage_call_data_workers
  BY <1>2, ManageJobs
<1>3. CASE \E w \in call_data_workers : Work(w)
  BY <1>3, WorkJobs
<1>4. ASSUME UNCHANGED <<jobs, fate, tries>>
      PROVE  JobInv'
  BY <1>4 DEF JobInv, OneJobPerCall, Attempts, TriesAreBounded, jobs
<1>5. CASE \/ TerminatedByException \/ Wait \/ Exit \/ ExitSlept \/ Gone
           \/ \E stopped \in BOOLEAN : StopPlugin(stopped)
           \/ UNCHANGED vars
  BY <1>4, <1>5 DEF TerminatedByException, Wait, Exit, ExitSlept, Gone,
                    StopPlugin, vars, history
<1> QED BY <1>1, <1>2, <1>3, <1>5 DEF Next

LEMMA InitJobs == Init => JobInv
BY DEF Init, JobInv, OneJobPerCall, Attempts, TriesAreBounded, MAX_RETRY

\* Every state is well typed and has its jobs in order.
LEMMA JobsReachable == Spec => [](TypeOK /\ JobInv)
<1>1. Init => TypeOK /\ JobInv
  BY InitType, InitJobs
<1>2. TypeOK /\ JobInv /\ [Next]_vars => (TypeOK /\ JobInv)'
  BY TypeOKInductive, JobsInductive
<1> QED BY <1>1, <1>2, PTL DEF Spec

\* No call is lost between the workers and the retry list, and none is with
\* two of them.
THEOREM JobsAlwaysOnePerCall == Spec => []OneJobPerCall
<1>1. TypeOK /\ JobInv => OneJobPerCall
  BY DEF JobInv
<1> QED BY <1>1, JobsReachable, PTL

\* A call is tried at most MAX_RETRY + 1 times, and not dropped before.
THEOREM TriesAlwaysBounded == Spec => []TriesAreBounded
<1>1. TypeOK /\ JobInv => TriesAreBounded
  BY DEF JobInv
<1> QED BY <1>1, JobsReachable, PTL

-----------------------------------------------------------------------------
(* Uploads.                                                                *)

\* The strengthening, for plugins that report failure by a positive number:
\* while the plugins run, a worker without an error so far has had the call
\* taken by every plugin it is past.
NoError(w) ==
  w.error = 0 =>
    \A p \in Plugins \ Broken : p < w.next => p \in accepted[w.call]

UploadInv ==
  /\ main.at \in {"loop", "exit", "terminated"} =>
       \A p \in Plugins \ Broken : plugin[p] = "RUNNING"
  /\ \A w \in call_data_workers : w.at # "ready" => w.error >= 0
  /\ main.at \in {"loop", "exit"} =>
       \A w \in call_data_workers : w.at # "ready" => NoError(w)

\* A new worker has no error and is past no plugin.
LEMMA NewWorkers ==
  /\ \A c : FirstTry(c).error = 0 /\ FirstTry(c).next = 1
  /\ \A r : Retry(r).error = 0 /\ Retry(r).next = 1
BY DEF FirstTry, Retry

LEMMA NoPluginBefore == \A w : w.next = 1 => NoError(w)
BY DEF NoError, Plugins

\* UploadInv survives what only adds new workers.
LEMMA UploadsKept ==
  ASSUME TypeOK, UploadInv, UNCHANGED <<plugin, accepted>>,
         main'.at \in {"loop", "exit", "terminated"} =>
           main.at \in {"loop", "exit", "terminated"},
         main'.at \in {"loop", "exit"} => main.at \in {"loop", "exit"},
         \A w \in call_data_workers' :
           w \in call_data_workers \/ w.at = "ready"
             \/ (w.error = 0 /\ w.next = 1)
  PROVE  UploadInv'
<1>1. \A w \in call_data_workers' : w.at # "ready" => w.error >= 0
  BY DEF UploadInv
<1>2. \A w : NoError(w) => NoError(w)'
  BY DEF NoError
<1>3. ASSUME main'.at \in {"loop", "exit"}, NEW w \in call_data_workers',
             w.at # "ready"
      PROVE  NoError(w)'
  BY <1>2, <1>3, NoPluginBefore DEF UploadInv
<1>4. main'.at \in {"loop", "exit", "terminated"} =>
        \A p \in Plugins \ Broken : plugin'[p] = "RUNNING"
  BY DEF UploadInv
<1> QED BY <1>1, <1>3, <1>4 DEF UploadInv

\* UploadInv survives the step of a worker.
LEMMA WorkUploads ==
  ASSUME Results \subseteq Nat, TypeOK, UploadInv,
         NEW w \in call_data_workers, Work(w)
  PROVE  UploadInv'
<1>1. w \in Workers
  BY DEF TypeOK
<1>2. \A status : Ended(w, status).at = "ready"
  BY DEF Ended
<1>3. CASE \E combined, converted \in BOOLEAN :
             ConvertMedia(w, combined, converted)
  <2>1. PICK combined, converted \in BOOLEAN :
          ConvertMedia(w, combined, converted)
    BY <1>3
  <2> DEFINE w2 == [w EXCEPT !.at = "plugins"]
  <2>2. w = [call |-> w.call, retry_attempt |-> w.retry_attempt,
             at |-> w.at, next |-> w.next, error |-> w.error]
    BY <1>1, <2>1, WorkerTypes DEF ConvertMedia
  <2>3. w2.call = w.call /\ w2.next = w.next /\ w2.error = w.error
    BY <2>2
  <2>4. w.at # "ready" /\ UNCHANGED <<main, plugin, accepted>>
    BY <2>1 DEF ConvertMedia, history
  <2>5. \A v \in call_data_workers' :
          v \in call_data_workers \/ v.at = "ready" \/ v = w2
    BY <2>1, <1>2 DEF ConvertMedia, Proceed
  <2> HIDE DEF w2
  <2>6. \A v : NoError(v) => NoError(v)'
    BY <2>4 DEF NoError
  <2>7. NoError(w) => NoError(w2)'
    BY <2>3, <2>4 DEF NoError
  <2> QED BY <2>3, <2>4, <2>5, <2>6, <2>7 DEF UploadInv
<1>4. CASE \E result \in Results : CallEnd(w, result)
  <2>1. PICK result \in Results : CallEnd(w, result)
    BY <1>4
  <2> DEFINE w2 == [w EXCEPT !.next = @ + 1, !.error = @ + result]
  <2>2. /\ w = [call |-> w.call, retry_attempt |-> w.retry_attempt,
                at |-> w.at, next |-> w.next, error |-> w.error]
        /\ w.next \in Nat \ {0}
        /\ w.error \in Int
        /\ w.call \in Calls
    BY <1>1, <2>1, WorkerTypes DEF CallEnd
  <2>3. w2.call = w.call /\ w2.next = w.next + 1 /\ w2.error = w.error + result
    BY <2>2
  <2>4. /\ w.at # "ready" /\ UNCHANGED <<main, plugin>>
        /\ accepted' = IF result = 0
                       THEN [accepted EXCEPT ![w.call] = @ \cup {w.next}]
                       ELSE accepted
    BY <2>1 DEF CallEnd
  <2>5. \A v \in call_data_workers' : v \in call_data_workers \/ v = w2
    BY <2>1 DEF CallEnd, Proceed
  <2>6. result \in Nat /\ w.error >= 0
    BY <2>4 DEF UploadInv
  <2> HIDE DEF w2
  <2>7. \A c \in Calls : accepted[c] \subseteq accepted'[c]
    BY <2>4 DEF TypeOK
  <2>8. \A v \in call_data_workers : v.call \in Calls
    BY DEF TypeOK, Workers
  <2>9. \A v \in call_data_workers : NoError(v) => NoError(v)'
    BY <2>7, <2>8 DEF NoError
  <2>10. ASSUME NoError(w)
         PROVE  NoError(w2)'
    <3> SUFFICES ASSUME w2.error = 0, NEW p \in Plugins \ Broken, p < w2.next
                 PROVE  p \in accepted'[w2.call]
      BY DEF NoError
    <3>1. w.error = 0 /\ result = 0
      BY <2>2, <2>3, <2>6
    <3>2. CASE p < w.next
      BY <2>2, <2>3, <2>7, <2>10, <3>1, <3>2 DEF NoError
    <3>3. CASE p = w.next
      BY <2>2, <2>3, <2>4, <3>1, <3>3 DEF TypeOK
    <3>4. p < w.next \/ p = w.next
      BY <2>2, <2>3 DEF Plugins
    <3> QED BY <3>2, <3>3, <3>4
  <2>11. w2.error >= 0
    BY <2>2, <2>3, <2>6
  <2> QED BY <2>4, <2>5, <2>9, <2>10, <2>11 DEF UploadInv
<1>5. CASE SkipPlugin(w)
  <2> DEFINE w2 == [w EXCEPT !.next = @ + 1]
  <2>1. /\ w = [call |-> w.call, retry_attempt |-> w.retry_attempt,
                at |-> w.at, next |-> w.next, error |-> w.error]
        /\ w.next \in Nat \ {0}
    BY <1>1, <1>5, WorkerTypes DEF SkipPlugin
  <2>2. w2.call = w.call /\ w2.next = w.next + 1 /\ w2.error = w.error
    BY <2>1
  <2>3. w.at # "ready" /\ UNCHANGED <<main, plugin, accepted>>
    BY <1>5 DEF SkipPlugin, history
  <2>4. \A v \in call_data_workers' : v \in call_data_workers \/ v = w2
    BY <1>5 DEF SkipPlugin, Proceed
  <2> HIDE DEF w2
  <2>5. \A v : NoError(v) => NoError(v)'
    BY <2>3 DEF NoError
  <2>6. ASSUME main.at \in {"loop", "exit"}, NoError(w)
        PROVE  NoError(w2)'
    <3>1. w.next \notin Plugins \ Broken
      BY <1>5, <2>6 DEF SkipPlugin, UploadInv
    <3>2. \A p \in Plugins \ Broken : p < w2.next => p < w.next
      BY <2>1, <2>2, <3>1 DEF Plugins
    <3> QED BY <2>2, <2>3, <2>6, <3>2 DEF NoError
  <2> QED BY <2>2, <2>3, <2>4, <2>5, <2>6 DEF UploadInv
<1>6. CASE WorkerSucceeds(w) \/ WorkerRetries(w)
  <2>1. UNCHANGED <<main, plugin, accepted>>
    BY <1>6 DEF WorkerSucceeds, WorkerRetries, history
  <2>2. \A v \in call_data_workers' : v \in call_data_workers \/ v.at = "ready"
    BY <1>6, <1>2 DEF WorkerSucceeds, WorkerRetries, Proceed
  <2> QED BY <2>1, <2>2, UploadsKept
<1> QED BY <1>3, <1>4, <1>5, <1>6 DEF Work

\* UploadInv is inductive.
LEMMA UploadsInductive ==
  ASSUME Results \subseteq Nat
  PROVE  TypeOK /\ UploadInv /\ [Next]_vars => UploadInv'
<1> SUFFICES ASSUME TypeOK, UploadInv, [Next]_vars
             PROVE  UploadInv'
  OBVIOUS
<1>1. CASE \E c \in Calls, list \in Recordings : conclude_call(c, list)
  <2>1. PICK c \in Calls, list \in Recordings : conclude_call(c, list)
    BY <1>1
  <2>2. \/ main' = main
        \/ main' = [at |-> "terminated"]
    BY <2>1 DEF conclude_call, Superseded, NoTransmissions, TooShort,
                StartWorker
  <2>3. UNCHANGED <<plugin, accepted>> /\ main.at \in {"loop", "exit"}
    BY <2>1 DEF conclude_call, Running
  <2>4. \A w \in call_data_workers' :
          w \in call_data_workers \/ (w.error = 0 /\ w.next = 1)
    BY <2>1, NewWorkers DEF conclude_call, Superseded, NoTransmissions,
                            TooShort, StartWorker
  <2> QED BY <2>2, <2>3, <2>4, UploadsKept
<1>2. CASE manage_call_data_workers
  <2>1. UNCHANGED <<main, plugin, accepted>>
    BY <1>2 DEF manage_call_data_workers
  <2>2. \A w \in call_data_workers' :
          w \in call_data_workers \/ (w.error = 0 /\ w.next = 1)
    BY <1>2, NewWorkers DEF manage_call_data_workers, RestartDue
  <2> QED BY <2>1, <2>2, UploadsKept
<1>3. CASE TerminatedByException
  BY <1>3, UploadsKept DEF TerminatedByException, InLoop, jobs, history
<1>4. CASE Wait
  BY <1>4, UploadsKept DEF Wait, jobs, history
<1>5. CASE \E w \in call_data_workers : Work(w)
  BY <1>5, WorkUploads
<1>6. CASE Exit
  BY <1>6, UploadsKept DEF Exit, InLoop, jobs, history
<1>7. CASE ExitSlept
  BY <1>7, UploadsKept DEF ExitSlept, jobs, history
<1>8. CASE \E stopped \in BOOLEAN : StopPlugin(stopped)
  <2>1. /\ main.at = "stopping" /\ main'.at = "stopping"
        /\ UNCHANGED call_data_workers
    BY <1>8 DEF StopPlugin, jobs, TypeOK, MainStates
  <2> QED BY <2>1 DEF UploadInv
<1>9. CASE Gone
  BY <1>9, UploadsKept DEF Gone, jobs, history
<1>10. CASE UNCHANGED vars
  BY <1>10, UploadsKept DEF vars, jobs, history
<1> QED BY <1>1, <1>2, <1>3, <1>4, <1>5, <1>6, <1>7, <1>8, <1>9, <1>10 DEF Next

LEMMA InitUploads == Init => UploadInv
BY DEF Init, UploadInv, Plugins

\* A step that removes files of a call that is being tried is that of a worker
\* that every plugin has been through.
LEMMA RemovalStep ==
  ASSUME TypeOK, UploadInv, [Next]_vars, NEW c \in Calls, fate[c] = "trying",
         main.at # "stopping", ~(temp[c] \subseteq temp'[c])
  PROVE  Plugins \ Broken \subseteq accepted[c]
<1>1. PICK w \in call_data_workers : WorkerSucceeds(w)
  <2>1. temp' # temp
    OBVIOUS
  <2>2. ASSUME NEW d \in Calls, NEW list \in Recordings, conclude_call(d, list)
        PROVE  FALSE
    <3>1. c # d
      BY <2>2 DEF conclude_call
    <3>2. temp'[c] = temp[c]
      BY <2>2, <3>1 DEF conclude_call, Superseded, NoTransmissions, TooShort,
                        StartWorker, remove_call_files, TypeOK
    <3> QED BY <3>2
  <2>3. ~ (\/ manage_call_data_workers \/ TerminatedByException \/ Wait
           \/ Exit \/ ExitSlept \/ Gone \/ UNCHANGED vars
           \/ \E stopped \in BOOLEAN : StopPlugin(stopped))
    BY <2>1 DEF manage_call_data_workers, TerminatedByException, Wait, Exit,
                ExitSlept, Gone, StopPlugin, vars, files
  <2>4. PICK w \in call_data_workers : Work(w)
    BY <2>2, <2>3 DEF Next
  <2> QED BY <2>1, <2>4 DEF Work, ConvertMedia, CallEnd, SkipPlugin,
                            WorkerRetries, files
<1>2. w.call = c
  <2>1. w.call # c => temp'[c] = temp[c]
    BY <1>1 DEF WorkerSucceeds, remove_call_files, TypeOK
  <2> QED BY <2>1
<1>3. /\ w.at = "plugins" /\ w.next > PluginCount /\ w.error = 0
      /\ main.at \notin {"gone", "terminated"}
  BY <1>1 DEF WorkerSucceeds, PluginsDone, Proceed
<1>4. main.at \in {"loop", "exit"}
  BY <1>3 DEF TypeOK, MainStates
<1>5. NoError(w)
  BY <1>3, <1>4 DEF UploadInv
<1>6. w.next \in Nat
  BY <1>3, WorkerTypes DEF TypeOK
<1>7. \A p \in Plugins : p < w.next
  BY <1>3, <1>6, ConcluderAssumption DEF Plugins, ConcluderAssumption
<1> QED BY <1>2, <1>3, <1>5, <1>7 DEF NoError

\* When every plugin reports failure by a positive number, files are removed
\* only after each plugin has taken the call, up to the moment the plugins are
\* being stopped.
THEOREM RemovalAlwaysFollowsUpload ==
  ASSUME Results \subseteq Nat
  PROVE  Spec => RemovalFollowsUpload
<1>1. Init => TypeOK /\ UploadInv
  BY InitType, InitUploads
<1>2. TypeOK /\ UploadInv /\ [Next]_vars => (TypeOK /\ UploadInv)'
  BY TypeOKInductive, UploadsInductive
<1>3. TypeOK /\ UploadInv /\ [Next]_vars
        => [\A c \in Calls :
              /\ fate[c] = "trying"
              /\ main.at # "stopping"
              /\ ~(temp[c] \subseteq temp'[c])
              => Plugins \ Broken \subseteq accepted[c]]_vars
  BY RemovalStep
<1> QED BY <1>1, <1>2, <1>3, PTL DEF Spec, RemovalFollowsUpload

-----------------------------------------------------------------------------
(* What is archived.                                                       *)

\* No transmission that is too short shares its file with one that is kept:
\* create_call_data would remove the file of both.
Unshared ==
  \/ transmission_archive
  \/ \A list \in Recordings :
       Listed(list) \cap NamesAt(list, DOMAIN list \ Kept(list)) = {}

Present(c) == Listed(recorded[c]) \subseteq temp[c]

\* What a call that is still to be tried has: the files of its transmissions
\* and, once it was converted, the combined file.
Held(c) == Unshared => Present(c)
Combined(c) == audio_archive /\ compress_wav => c \in audio

\* A worker whose call goes on after it.
Active(w) == w.at # "ready" \/ w.status = "RETRY"

Archived(c) ==
  audio_archive /\ Unshared /\ tries[c] > 0 /\ ~Present(c) =>
    /\ Combined(c)
    /\ transmission_archive => Listed(recorded[c]) \subseteq capture[c]

\* The strengthening: a call that will be tried again has all of its files,
\* so that only the worker that takes the last look at them may miss them.
ArchiveInv ==
  /\ \A c \in Calls : fate[c] = "recording" => tries[c] = 0
  /\ \A w \in call_data_workers :
       /\ Active(w) => Held(w.call)
       /\ Active(w) /\ w.at # "convert" => Combined(w.call)
  /\ \A r \in retry_call_list : Held(r.call) /\ Combined(r.call)
  /\ \A c \in Calls : Archived(c)

\* create_call_data leaves the files of the transmissions it keeps.
LEMMA KeptFilesLeft ==
  ASSUME Unshared, NEW list \in Recordings
  PROVE  Listed(list) \subseteq LeftByCreate(list)
<1>1. Listed(list) \subseteq NamesAt(list, DOMAIN list)
  BY DEF Listed, NamesAt, Kept
<1>2. CASE transmission_archive
  BY <1>1, <1>2 DEF LeftByCreate
<1>3. CASE Listed(list) \cap NamesAt(list, DOMAIN list \ Kept(list)) = {}
  BY <1>1, <1>3 DEF LeftByCreate
<1> QED BY <1>2, <1>3 DEF Unshared

\* A copy that does not throw copies every file that is there.
LEMMA AllAreCopied ==
  ASSUME NEW list, NEW present, Archives, ~CopyThrows(list, present),
         Listed(list) \subseteq present
  PROVE  Listed(list) \subseteq CopiedFiles(list, present)
<1>1. \A k \in Kept(list) : ~RepeatedBy(list, present, k)
  BY DEF CopyThrows
<1>2. Listed(list)
        = NamesAt(list, {k \in Kept(list) : ~RepeatedBy(list, present, k)})
  BY <1>1 DEF Listed
<1> QED BY <1>2 DEF CopiedFiles

\* What a call has changes only with its own list and files.
LEMMA CallUntouched ==
  ASSUME NEW c, recorded'[c] = recorded[c], temp'[c] = temp[c],
         capture[c] \subseteq capture'[c], tries'[c] = tries[c],
         audio_archive /\ c \in audio => c \in audio'
  PROVE  /\ Held(c) => Held(c)'
         /\ Combined(c) => Combined(c)'
         /\ Archived(c) => Archived(c)'
<1>1. Present(c)' <=> Present(c)
  BY DEF Present, Listed, NamesAt, Kept
<1>2. Held(c) => Held(c)'
  BY <1>1 DEF Held, Unshared, Listed, NamesAt, Kept
<1>3. Combined(c) => Combined(c)'
  BY DEF Combined
<1>4. Archived(c) => Archived(c)'
  BY <1>1, <1>3 DEF Archived
<1> QED BY <1>2, <1>3, <1>4

\* ArchiveInv survives a step of a worker that removes no files.
LEMMA ArchiveKeptByWorker ==
  ASSUME TypeOK, ArchiveInv, NEW w \in call_data_workers, NEW w2,
         Proceed(w, w2), w2.call = w.call,
         UNCHANGED <<recorded, retry_call_list, temp, capture, fate, tries>>,
         audio \subseteq audio',
         Active(w2) => Active(w),
         Active(w2) /\ w2.at # "convert" => Combined(w.call) \/ w.call \in audio'
  PROVE  ArchiveInv'
<1>1. \A c : /\ Held(c) => Held(c)'
             /\ Combined(c) => Combined(c)'
             /\ Archived(c) => Archived(c)'
  BY CallUntouched
<1>2. call_data_workers' = (call_data_workers \ {w}) \cup {w2}
  BY DEF Proceed
<1>3. ASSUME NEW v \in call_data_workers'
      PROVE  /\ Active(v) => Held(v.call)'
             /\ Active(v) /\ v.at # "convert" => Combined(v.call)'
  <2>1. CASE v \in call_data_workers
    BY <2>1, <1>1 DEF ArchiveInv
  <2>2. CASE v = w2
    <3>1. Active(v) => Held(v.call)'
      BY <2>2, <1>1 DEF ArchiveInv
    <3>2. w.call \in audio' => Combined(w.call)'
      BY DEF Combined
    <3> QED BY <2>2, <3>1, <3>2, <1>1
  <2> QED BY <1>2, <2>1, <2>2
<1>4. \A r \in retry_call_list' : Held(r.call)' /\ Combined(r.call)'
  BY <1>1 DEF ArchiveInv
<1>5. \A c \in Calls : Archived(c)'
  BY <1>1 DEF ArchiveInv
<1>6. \A c \in Calls : fate'[c] = "recording" => tries'[c] = 0
  BY DEF ArchiveInv
<1>7. \A v : Active(v)' <=> Active(v)
  BY DEF Active
<1> QED BY <1>3, <1>4, <1>5, <1>6, <1>7 DEF ArchiveInv

\* Concluding a call gives its worker all its files.
LEMMA ConcludeArchive ==
  ASSUME TypeOK, JobInv, ArchiveInv, NEW c \in Calls, NEW list \in Recordings,
         conclude_call(c, list)
  PROVE  ArchiveInv'
<1>1. /\ fate[c] = "recording" /\ tries[c] = 0
      /\ recorded' = [recorded EXCEPT ![c] = list]
      /\ retry_call_list' = retry_call_list
  BY DEF conclude_call, ArchiveInv
<1>2. /\ \A w \in call_data_workers : w.call # c
      /\ \A r \in retry_call_list : r.call # c
  BY <1>1 DEF JobInv, OneJobPerCall
<1>3. /\ \A d \in Calls \ {c} : /\ temp'[d] = temp[d]
                                /\ capture'[d] = capture[d]
                                /\ tries'[d] = tries[d]
                                /\ fate'[d] = fate[d]
                                /\ recorded'[d] = recorded[d]
                                /\ d \in audio => d \in audio'
      /\ fate'[c] # "recording"
  <2>1. recorded' = [recorded EXCEPT ![c] = list]
    BY <1>1
  <2>2. CASE Superseded(c, list)
    BY <2>1, <2>2 DEF Superseded, remove_call_files, TypeOK
  <2>3. CASE NoTransmissions(c, list)
    BY <2>1, <2>3 DEF NoTransmissions, TypeOK
  <2>4. CASE TooShort(c, list)
    BY <2>1, <2>4 DEF TooShort, remove_call_files, TypeOK
  <2>5. CASE StartWorker(c, list)
    BY <2>1, <2>5 DEF StartWorker, TypeOK
  <2> QED BY <2>2, <2>3, <2>4, <2>5 DEF conclude_call
<1>4. \A d \in Calls \ {c} : /\ Held(d) => Held(d)'
                             /\ Combined(d) => Combined(d)'
                             /\ Archived(d) => Archived(d)'
  BY <1>3, CallUntouched
<1>5. \A r \in retry_call_list' : Held(r.call)' /\ Combined(r.call)'
  BY <1>1, <1>2, <1>4 DEF ArchiveInv, TypeOK, Retries
<1>6. \A d \in Calls : fate'[d] = "recording" => tries'[d] = 0
  BY <1>3 DEF ArchiveInv
<1>7. ASSUME NEW w \in call_data_workers
      PROVE  /\ Active(w) => Held(w.call)'
             /\ Active(w) /\ w.at # "convert" => Combined(w.call)'
  BY <1>2, <1>4 DEF ArchiveInv, TypeOK, Workers
<1>8. \A v : Active(v)' <=> Active(v)
  BY DEF Active
<1>9. CASE StartWorker(c, list)
  <2>1. /\ call_data_workers' = call_data_workers \cup {FirstTry(c)}
        /\ temp'[c] = LeftByCreate(list)
        /\ recorded'[c] = list
    BY <1>1, <1>9 DEF StartWorker, TypeOK
  <2>2. Unshared => Present(c)'
    <3>1. Listed(recorded[c])' = Listed(list)
      BY <2>1 DEF Listed, NamesAt, Kept
    <3> QED BY <2>1, <3>1, KeptFilesLeft DEF Present
  <2>3. Unshared' <=> Unshared
    BY DEF Unshared, Listed, NamesAt, Kept
  <2>4. FirstTry(c).call = c /\ FirstTry(c).at = "convert"
    BY DEF FirstTry
  <2>5. Held(c)' /\ Archived(c)'
    BY <2>2, <2>3 DEF Held, Archived
  <2>6. \A d \in Calls : Archived(d)'
    BY <1>4, <2>5 DEF ArchiveInv
  <2> QED BY <1>5, <1>6, <1>7, <1>8, <2>1, <2>4, <2>5, <2>6 DEF ArchiveInv
<1>10. CASE UNCHANGED <<call_data_workers, tries>>
  <2>1. tries'[c] = 0
    BY <1>1, <1>10
  <2>2. Archived(c)'
    BY <2>1 DEF Archived
  <2>3. \A d \in Calls : Archived(d)'
    BY <1>4, <2>2 DEF ArchiveInv
  <2> QED BY <1>5, <1>6, <1>7, <1>8, <1>10, <2>3 DEF ArchiveInv
<1> QED BY <1>9, <1>10 DEF conclude_call, Superseded, NoTransmissions, TooShort

\* A worker that removes the files of its call has copied them before, and
\* leaves a combined file behind.
LEMMA SuccessArchive ==
  ASSUME TypeOK, JobInv, ArchiveInv, NEW w \in call_data_workers,
         WorkerSucceeds(w)
  PROVE  ArchiveInv'
<1> DEFINE c == w.call
           list == recorded[w.call]
           present == temp[w.call]
           w2 == Ended(w, IF CopyThrows(list, present) THEN "EXCEPTION"
                          ELSE "SUCCESS")
<1>1. c \in Calls
  BY DEF TypeOK, Workers
<1>2. /\ w.at = "plugins"
      /\ remove_call_files(c, list, present)
      /\ call_data_workers' = (call_data_workers \ {w}) \cup {w2}
      /\ UNCHANGED <<recorded, retry_call_list, fate, tries>>
  BY DEF WorkerSucceeds, PluginsDone, Proceed, history
<1>3. ~Active(w2)
  BY DEF Active, Ended
<1>4. /\ \A v \in call_data_workers \ {w} : v.call # c
      /\ \A r \in retry_call_list : r.call # c
  BY DEF JobInv, OneJobPerCall
<1>5. Held(c) /\ Combined(c)
  BY <1>2 DEF ArchiveInv, Active
<1> HIDE DEF c, w2
<1>6. /\ temp' = [temp EXCEPT ![c] = FilesAfter(list, present)]
      /\ capture' = [capture EXCEPT ![c] = @ \cup CopiedFiles(list, present)]
      /\ audio' = IF audio_archive THEN audio ELSE audio \ {c}
  BY <1>2 DEF remove_call_files
<1>7. \A d \in Calls \ {c} : /\ Held(d) => Held(d)'
                             /\ Combined(d) => Combined(d)'
                             /\ Archived(d) => Archived(d)'
  BY <1>1, <1>2, <1>6, CallUntouched DEF TypeOK
<1>8. Archived(c)'
  <2>1. /\ present = temp[c]
        /\ list = recorded[c]
    BY DEF c
  <2>2. Listed(recorded[c])' = Listed(list)
    BY <1>2, <2>1 DEF Listed, NamesAt, Kept
  <2>3. SUFFICES ASSUME audio_archive, Unshared', ~Present(c)'
                 PROVE  /\ Combined(c)'
                        /\ transmission_archive =>
                             Listed(list) \subseteq capture'[c]
    BY <2>2 DEF Archived
  <2>4. Unshared
    BY <2>3 DEF Unshared, Listed, NamesAt, Kept
  <2>5. Listed(list) \subseteq present
    BY <1>5, <2>1, <2>4 DEF Held, Present
  <2>6. Combined(c)'
    BY <1>5, <1>6, <2>3 DEF Combined
  <2>7. temp'[c] = FilesAfter(list, present)
    BY <1>1, <1>6 DEF TypeOK
  <2>8. ~CopyThrows(list, present)
    <3>1. CopyThrows(list, present) => temp'[c] = present
      BY <2>7 DEF FilesAfter
    <3> QED BY <2>2, <2>3, <2>5, <3>1 DEF Present
  <2>9. ASSUME transmission_archive
        PROVE  Listed(list) \subseteq capture'[c]
    <3>1. Archives
      BY <2>3, <2>9 DEF Archives
    <3>2. Listed(list) \subseteq CopiedFiles(list, present)
      BY <2>5, <2>8, <3>1, AllAreCopied
    <3>3. capture'[c] = capture[c] \cup CopiedFiles(list, present)
      BY <1>1, <1>6 DEF TypeOK
    <3> QED BY <3>2, <3>3
  <2> QED BY <2>6, <2>9
<1>9. ASSUME NEW v \in call_data_workers'
      PROVE  /\ Active(v) => Held(v.call)'
             /\ Active(v) /\ v.at # "convert" => Combined(v.call)'
  <2>1. CASE v \in call_data_workers \ {w}
    <3>1. v.call \in Calls \ {c}
      BY <1>4, <2>1 DEF TypeOK, Workers
    <3> QED BY <1>7, <2>1, <3>1 DEF ArchiveInv
  <2> QED BY <1>2, <1>3, <2>1
<1>10. \A r \in retry_call_list' : Held(r.call)' /\ Combined(r.call)'
  <2>1. \A r \in retry_call_list : r.call \in Calls \ {c}
    BY <1>4 DEF TypeOK, Retries
  <2> QED BY <1>2, <1>7, <2>1 DEF ArchiveInv
<1>11. \A d \in Calls : Archived(d)'
  BY <1>7, <1>8 DEF ArchiveInv
<1>12. \A d \in Calls : fate'[d] = "recording" => tries'[d] = 0
  BY <1>2 DEF ArchiveInv
<1>13. \A v : Active(v)' <=> Active(v)
  BY DEF Active
<1> QED BY <1>9, <1>10, <1>11, <1>12, <1>13 DEF ArchiveInv

\* The fields of a worker that has not ended.
LEMMA WorkerShape ==
  ASSUME TypeOK, NEW w \in call_data_workers, w.at # "ready"
  PROVE  w = [call |-> w.call, retry_attempt |-> w.retry_attempt,
              at |-> w.at, next |-> w.next, error |-> w.error]
<1>1. w \in Workers
  BY DEF TypeOK
<1> QED BY <1>1, WorkerTypes

LEMMA WorkArchive ==
  ASSUME TypeOK, JobInv, ArchiveInv, NEW w \in call_data_workers, Work(w)
  PROVE  ArchiveInv'
<1>2. \A status : /\ Ended(w, status).call = w.call
                  /\ Ended(w, status).at = "ready"
                  /\ Ended(w, status).status = status
  BY DEF Ended
<1>3. CASE \E combined, converted \in BOOLEAN :
             ConvertMedia(w, combined, converted)
  <2>1. PICK combined, converted \in BOOLEAN :
          ConvertMedia(w, combined, converted)
    BY <1>3
  <2>2. w = [call |-> w.call, retry_attempt |-> w.retry_attempt,
             at |-> w.at, next |-> w.next, error |-> w.error]
    BY <2>1, WorkerShape DEF ConvertMedia
  <2>3. Active(w)
    BY <2>1 DEF ConvertMedia, Active
  <2>4. audio' = IF combined THEN audio \cup {w.call} ELSE audio
    BY <2>1 DEF ConvertMedia
  <2>5. UNCHANGED <<recorded, retry_call_list, temp, capture, fate, tries>>
    BY <2>1 DEF ConvertMedia, history
  <2>6. CASE compress_wav /\ ~converted
    <3> DEFINE w2 == Ended(w, "FAILED")
    <3>1. Proceed(w, w2)
      BY <2>1, <2>6 DEF ConvertMedia
    <3>2. w2.call = w.call /\ ~Active(w2)
      BY <1>2 DEF Active
    <3> HIDE DEF w2
    <3> QED BY <2>4, <2>5, <3>1, <3>2, ArchiveKeptByWorker
  <2>7. CASE ~(compress_wav /\ ~converted)
    <3> DEFINE w2 == [w EXCEPT !.at = "plugins"]
    <3>1. Proceed(w, w2)
      BY <2>1, <2>7 DEF ConvertMedia
    <3>2. w2.call = w.call
      BY <2>2
    <3>3. Combined(w.call) \/ w.call \in audio'
      <4>1. compress_wav => combined
        BY <2>1, <2>7 DEF ConvertMedia
      <4> QED BY <2>4, <4>1 DEF Combined
    <3> HIDE DEF w2
    <3> QED BY <2>3, <2>4, <2>5, <3>1, <3>2, <3>3, ArchiveKeptByWorker
  <2> QED BY <2>6, <2>7
<1>4. ASSUME NEW w2, w.at = "plugins", Proceed(w, w2), w2.call = w.call,
             UNCHANGED <<recorded, retry_call_list, files, fate, tries>>
      PROVE  ArchiveInv'
  <2>1. Active(w)
    BY <1>4 DEF Active
  <2>2. Combined(w.call)
    BY <1>4, <2>1 DEF ArchiveInv
  <2> QED BY <1>4, <2>1, <2>2, ArchiveKeptByWorker DEF files
<1>5. CASE \E result \in Results : CallEnd(w, result)
  <2>1. PICK result \in Results : CallEnd(w, result)
    BY <1>5
  <2> DEFINE w2 == [w EXCEPT !.next = @ + 1, !.error = @ + result]
  <2>2. w = [call |-> w.call, retry_attempt |-> w.retry_attempt,
             at |-> w.at, next |-> w.next, error |-> w.error]
    BY <2>1, WorkerShape DEF CallEnd
  <2>3. w2.call = w.call
    BY <2>2
  <2>4. /\ w.at = "plugins" /\ Proceed(w, w2)
        /\ UNCHANGED <<recorded, retry_call_list, files, fate, tries>>
    BY <2>1 DEF CallEnd
  <2> HIDE DEF w2
  <2> QED BY <1>4, <2>3, <2>4
<1>6. CASE SkipPlugin(w)
  <2> DEFINE w2 == [w EXCEPT !.next = @ + 1]
  <2>1. w = [call |-> w.call, retry_attempt |-> w.retry_attempt,
             at |-> w.at, next |-> w.next, error |-> w.error]
    BY <1>6, WorkerShape DEF SkipPlugin
  <2>2. w2.call = w.call
    BY <2>1
  <2>3. /\ w.at = "plugins" /\ Proceed(w, w2)
        /\ UNCHANGED <<recorded, retry_call_list, files, fate, tries>>
    BY <1>6 DEF SkipPlugin, history
  <2> HIDE DEF w2
  <2> QED BY <1>4, <2>2, <2>3
<1>7. CASE WorkerRetries(w)
  BY <1>2, <1>4, <1>7 DEF WorkerRetries, PluginsDone, history
<1>8. CASE WorkerSucceeds(w)
  BY <1>8, SuccessArchive
<1> QED BY <1>3, <1>5, <1>6, <1>7, <1>8 DEF Work

\* A call that is put on the retry list, or restarted from it, has its files.
LEMMA ManageArchive ==
  ASSUME TypeOK, JobInv, ArchiveInv, manage_call_data_workers
  PROVE  ArchiveInv'
<1>1. PICK jitter \in [Retried(Ready) -> Jitter] :
        RestartDue(retry_call_list
                     \cup {NextRetry(w, jitter[w]) : w \in Retried(Ready)})
  BY DEF manage_call_data_workers
<1> DEFINE list == retry_call_list
                     \cup {NextRetry(w, jitter[w]) : w \in Retried(Ready)}
           due == {r \in list : r.process_call_time <= now}
<1>2. /\ retry_call_list' = list \ due
      /\ call_data_workers' = (call_data_workers \ Ready)
                                \cup {Retry(r) : r \in due}
      /\ tries' = [c \in Calls |-> IF \E r \in due : r.call = c
                                   THEN tries[c] + 1 ELSE tries[c]]
  BY <1>1 DEF RestartDue
<1>3. /\ UNCHANGED <<recorded, files>>
      /\ fate' = [c \in Calls |->
                    IF \E w \in Ready : w.call = c
                    THEN FateOf(CHOOSE w \in Ready : w.call = c)
                    ELSE fate[c]]
  BY DEF manage_call_data_workers
<1>4. \A c : /\ Held(c)' <=> Held(c)
             /\ Combined(c)' <=> Combined(c)
             /\ Present(c)' <=> Present(c)
  BY <1>3 DEF files, Held, Combined, Present, Unshared, Listed, NamesAt, Kept
<1>5. ASSUME NEW r \in list
      PROVE  Held(r.call) /\ Combined(r.call) /\ fate[r.call] = "trying"
                /\ r.call \in Calls
  <2>1. CASE r \in retry_call_list
    BY <2>1 DEF ArchiveInv, JobInv, OneJobPerCall, TypeOK, Retries
  <2>2. CASE r \notin retry_call_list
    <3>1. PICK w \in Retried(Ready) : r = NextRetry(w, jitter[w])
      BY <2>2
    <3>2. /\ w \in call_data_workers /\ w.at = "ready" /\ w.status = "RETRY"
          /\ r.call = w.call
      BY <3>1 DEF Retried, Ready, NextRetry
    <3>3. Active(w) /\ w.at # "convert"
      BY <3>2 DEF Active
    <3>4. w.call \in Calls
      BY <3>2 DEF TypeOK, Workers
    <3> QED BY <3>2, <3>3, <3>4 DEF ArchiveInv, JobInv, OneJobPerCall
  <2> QED BY <2>1, <2>2
<1> HIDE DEF list
<1>6. \A r \in retry_call_list' : Held(r.call)' /\ Combined(r.call)'
  BY <1>2, <1>4, <1>5
<1>7. ASSUME NEW w \in call_data_workers'
      PROVE  /\ Active(w) => Held(w.call)'
             /\ Active(w) /\ w.at # "convert" => Combined(w.call)'
  <2>1. CASE w \in call_data_workers
    BY <1>4, <2>1 DEF ArchiveInv
  <2>2. ASSUME NEW r \in due, w = Retry(r)
        PROVE  Held(w.call)' /\ Combined(w.call)'
    <3>1. w.call = r.call
      BY <2>2 DEF Retry
    <3> QED BY <1>4, <1>5, <3>1
  <2> QED BY <1>2, <2>1, <2>2
<1>8. ASSUME NEW c \in Calls, fate'[c] = "recording"
      PROVE  tries'[c] = 0
  <2>1. \A w : FateOf(w) # "recording"
    BY DEF FateOf
  <2>2. fate[c] = "recording"
    BY <1>3, <1>8, <2>1
  <2>3. ~\E r \in due : r.call = c
    BY <1>5, <2>2
  <2> QED BY <1>2, <2>2, <2>3 DEF ArchiveInv
<1>9. ASSUME NEW c \in Calls
      PROVE  Archived(c)'
  <2>1. CASE \E r \in due : r.call = c
    <3>1. Held(c)'
      BY <1>4, <1>5, <2>1
    <3> QED BY <3>1 DEF Archived, Held
  <2>2. CASE ~\E r \in due : r.call = c
    <3>1. tries'[c] = tries[c]
      BY <1>2, <2>2
    <3> QED BY <1>3, <3>1, CallUntouched DEF ArchiveInv, files
  <2> QED BY <2>1, <2>2
<1>10. \A v : Active(v)' <=> Active(v)
  BY DEF Active
<1> QED BY <1>6, <1>7, <1>8, <1>9, <1>10 DEF ArchiveInv

LEMMA ArchiveInductive == TypeOK /\ JobInv /\ ArchiveInv /\ [Next]_vars => ArchiveInv'
<1> SUFFICES ASSUME TypeOK, JobInv, ArchiveInv, [Next]_vars
             PROVE  ArchiveInv'
  OBVIOUS
<1>1. CASE \E c \in Calls, list \in Recordings : conclude_call(c, list)
  BY <1>1, ConcludeArchive
<1>2. CASE manage_call_data_workers
  BY <1>2, ManageArchive
<1>3. CASE \E w \in call_data_workers : Work(w)
  BY <1>3, WorkArchive
<1>4. ASSUME UNCHANGED <<recorded, jobs, files, fate, tries>>
      PROVE  ArchiveInv'
  <2>1. \A c : /\ Held(c) => Held(c)'
               /\ Combined(c) => Combined(c)'
               /\ Archived(c) => Archived(c)'
    BY <1>4, CallUntouched DEF files
  <2>2. \A v : Active(v)' <=> Active(v)
    BY DEF Active
  <2> QED BY <1>4, <2>1, <2>2 DEF ArchiveInv, jobs
<1>5. CASE \/ TerminatedByException \/ Wait \/ Exit \/ ExitSlept \/ Gone
           \/ \E stopped \in BOOLEAN : StopPlugin(stopped)
           \/ UNCHANGED vars
  BY <1>4, <1>5 DEF TerminatedByException, Wait, Exit, ExitSlept, Gone,
                    StopPlugin, vars, history
<1> QED BY <1>1, <1>2, <1>3, <1>5 DEF Next

LEMMA ArchiveReachable == Spec => []ArchiveInv
<1>1. Init => ArchiveInv
  BY DEF Init, ArchiveInv, Archived
<1>2. TypeOK /\ JobInv /\ ArchiveInv /\ [Next]_vars => ArchiveInv'
  BY ArchiveInductive
<1> QED BY <1>1, <1>2, JobsReachable, PTL DEF Spec

\* With compressWav, which makes a call fail when it could not be combined,
\* and as long as no short transmission shares the file of a longer one, the
\* audio of a call outlives its transmission files.
THEOREM ArchiveAlwaysKeepsAudio ==
  ASSUME compress_wav, Unshared
  PROVE  Spec => []ArchiveKeepsAudio
<1>1. ArchiveInv => ArchiveKeepsAudio
  BY DEF ArchiveInv, Archived, Combined, Present, ArchiveKeepsAudio
<1> QED BY <1>1, ArchiveReachable, PTL

\* Whatever becomes of the combined file and whatever the lists hold: with
\* transmissionArchive no transmission file of a call that was tried is
\* removed unless there is a copy.
TransmissionsAreArchived ==
  \A c \in Calls :
    /\ audio_archive /\ transmission_archive
    /\ tries[c] > 0
    /\ ~(Listed(recorded[c]) \subseteq temp[c])
    => Listed(recorded[c]) \subseteq capture[c]

THEOREM TransmissionsAlwaysArchived == Spec => []TransmissionsAreArchived
<1>1. ArchiveInv => TransmissionsAreArchived
  BY DEF ArchiveInv, Archived, Unshared, Present, TransmissionsAreArchived
<1> QED BY <1>1, ArchiveReachable, PTL

-----------------------------------------------------------------------------
(* Delivery.                                                               *)

\* Where a worker is in the list of plugins: nowhere past its end, and at its
\* first one while it still converts.
InTurn(w) ==
  /\ w.at # "ready" => w.next <= PluginCount + 1
  /\ w.at = "convert" => w.next = 1

\* The strengthening: every worker is in turn.
TurnInv == \A w \in call_data_workers : InTurn(w)

\* What a worker becomes: its call stays, and the call's delivery goes on.
WorkerMoved(w, w2) ==
  /\ w2.call = w.call
  /\ \/ /\ StageOf(w) = "combining" /\ AskedOf(w) = AskedOf(w2)
        /\ StageOf(w2) \in {"offered", "unusable"}
     \/ /\ StageOf(w) = "offered" /\ StageOf(w2) = "offered"
        /\ AskedOf(w) < PluginCount /\ AskedOf(w2) = AskedOf(w) + 1
     \/ /\ StageOf(w) = "offered" /\ AskedOf(w) = PluginCount
        /\ StageOf(w2) \in {"taken", "refused"} /\ AskedOf(w2) = 0

\* The stages of a worker.
LEMMA StageValues ==
  ASSUME NEW w
  PROVE  /\ w.at = "convert" => StageOf(w) = "combining"
         /\ w.at = "plugins" => StageOf(w) = "offered"
         /\ w.at = "ready" /\ w.status = "RETRY" => StageOf(w) = "refused"
         /\ w.at = "ready" /\ w.status = "FAILED" => StageOf(w) = "unusable"
         /\ w.at = "ready" /\ w.status \in {"SUCCESS", "EXCEPTION"} =>
              StageOf(w) = "taken"
         /\ w.at = "ready" => AskedOf(w) = 0
         /\ w.at # "ready" => AskedOf(w) = w.next - 1
BY DEF StageOf, AskedOf

\* A worker that ends.
LEMMA EndedStage ==
  ASSUME NEW w, NEW status
  PROVE  /\ Ended(w, status).call = w.call
         /\ Ended(w, status).at = "ready"
         /\ Ended(w, status).status = status
         /\ InTurn(Ended(w, status))
BY DEF Ended, InTurn

\* One step of a worker.
LEMMA WorkMoves ==
  ASSUME TypeOK, TurnInv, NEW w \in call_data_workers, Work(w)
  PROVE  /\ UNCHANGED <<retry_call_list, fate, tries>>
         /\ \E w2 : Proceed(w, w2) /\ WorkerMoved(w, w2) /\ InTurn(w2)
<1> DEFINE Quiet == UNCHANGED <<retry_call_list, fate, tries>>
           Moves == \E w2 : Proceed(w, w2) /\ WorkerMoved(w, w2) /\ InTurn(w2)
<1>p. PluginCount \in Nat
  BY ConcluderAssumption DEF ConcluderAssumption
<1>w. w \in Workers /\ InTurn(w)
  BY DEF TypeOK, TurnInv
<1>s. ASSUME w.at # "ready"
      PROVE  /\ w.next \in Nat \ {0}
             /\ w = [call |-> w.call, retry_attempt |-> w.retry_attempt,
                     at |-> w.at, next |-> w.next, error |-> w.error]
             /\ AskedOf(w) = w.next - 1
  <2>1. /\ w.next \in Nat \ {0}
        /\ w = [call |-> w.call, retry_attempt |-> w.retry_attempt,
                at |-> w.at, next |-> w.next, error |-> w.error]
    <3>1. w \in Workers
      BY <1>w
    <3>. QED BY <1>s, <3>1, WorkerTypes
  <2>2. AskedOf(w) = w.next - 1
    BY <1>s, StageValues
  <2>. QED BY <2>1, <2>2
<1>1. ASSUME NEW combined \in BOOLEAN, NEW converted \in BOOLEAN,
             ConvertMedia(w, combined, converted)
      PROVE  Quiet /\ Moves
  <2>1. w.at = "convert" /\ Quiet
    BY <1>1 DEF ConvertMedia, history
  <2>2. StageOf(w) = "combining" /\ AskedOf(w) = 0 /\ w.next = 1
    BY <1>w, <1>s, <2>1, StageValues DEF InTurn
  <2>3. CASE compress_wav /\ ~converted
    <3>1. Proceed(w, Ended(w, "FAILED"))
      BY <1>1, <2>3 DEF ConvertMedia
    <3>2. WorkerMoved(w, Ended(w, "FAILED"))
      BY <2>2, EndedStage, StageValues DEF WorkerMoved
    <3>. QED BY <2>1, <3>1, <3>2, EndedStage
  <2>4. CASE ~(compress_wav /\ ~converted)
    <3> DEFINE w2 == [w EXCEPT !.at = "plugins"]
    <3>1. Proceed(w, w2)
      BY <1>1, <2>4 DEF ConvertMedia
    <3>2. w2.call = w.call /\ w2.at = "plugins" /\ w2.next = 1
      BY <1>s, <2>1, <2>2
    <3> HIDE DEF w2
    <3>3. StageOf(w2) = "offered" /\ AskedOf(w2) = 0
      BY <3>2, StageValues
    <3>4. WorkerMoved(w, w2)
      BY <2>2, <3>2, <3>3 DEF WorkerMoved
    <3>5. InTurn(w2)
      BY <1>p, <3>2 DEF InTurn
    <3>. QED BY <2>1, <3>1, <3>4, <3>5
  <2>. QED BY <2>3, <2>4
<1>2. ASSUME w.at = "plugins", w.next <= PluginCount,
             NEW w2, w2.call = w.call, w2.at = "plugins", w2.next = w.next + 1
      PROVE  WorkerMoved(w, w2) /\ InTurn(w2)
  <2>1. w.next \in Nat \ {0}
    BY <1>2, <1>s
  <2>2. w.next - 1 < PluginCount /\ w2.next <= PluginCount + 1
    BY <1>2, <1>p, <2>1
  <2>3. w2.next - 1 = w.next - 1 + 1
    BY <1>2, <2>1
  <2>4. /\ StageOf(w) = "offered" /\ AskedOf(w) = w.next - 1
        /\ StageOf(w2) = "offered" /\ AskedOf(w2) = w2.next - 1
    BY <1>2, StageValues
  <2>. QED BY <1>2, <2>2, <2>3, <2>4 DEF WorkerMoved, InTurn
<1>3. ASSUME NEW result \in Results, CallEnd(w, result) PROVE Quiet /\ Moves
  <2> DEFINE w2 == [w EXCEPT !.next = @ + 1, !.error = @ + result]
  <2>1. /\ w.at = "plugins" /\ w.next <= PluginCount
        /\ Quiet /\ Proceed(w, w2)
    BY <1>3 DEF CallEnd
  <2>2. w2.call = w.call /\ w2.at = w.at /\ w2.next = w.next + 1
    BY <1>s, <2>1
  <2> HIDE DEF w2
  <2>. QED BY <1>2, <2>1, <2>2
<1>4. ASSUME SkipPlugin(w) PROVE Quiet /\ Moves
  <2> DEFINE w2 == [w EXCEPT !.next = @ + 1]
  <2>1. /\ w.at = "plugins" /\ w.next <= PluginCount
        /\ Quiet /\ Proceed(w, w2)
    BY <1>4 DEF SkipPlugin, history
  <2>2. w2.call = w.call /\ w2.at = w.at /\ w2.next = w.next + 1
    BY <1>s, <2>1
  <2> HIDE DEF w2
  <2>. QED BY <1>2, <2>1, <2>2
<1>5. ASSUME NEW status \in {"SUCCESS", "EXCEPTION", "RETRY"},
             PluginsDone(w), Proceed(w, Ended(w, status))
      PROVE  Moves
  <2>1. w.at = "plugins" /\ w.next > PluginCount
    BY <1>5 DEF PluginsDone
  <2>2. w.next \in Nat /\ w.next <= PluginCount + 1
    BY <1>w, <1>s, <2>1 DEF InTurn
  <2>3. w.next - 1 = PluginCount
    BY <1>p, <2>1, <2>2
  <2>4. StageOf(w) = "offered" /\ AskedOf(w) = PluginCount
    BY <2>1, <2>3, StageValues
  <2>5. /\ StageOf(Ended(w, status)) \in {"taken", "refused"}
        /\ AskedOf(Ended(w, status)) = 0
    BY EndedStage, StageValues
  <2>6. WorkerMoved(w, Ended(w, status))
    BY <2>4, <2>5, EndedStage DEF WorkerMoved
  <2>. QED BY <1>5, <2>6, EndedStage
<1>6. ASSUME WorkerSucceeds(w) PROVE Quiet /\ Moves
  BY <1>5, <1>6 DEF WorkerSucceeds, history
<1>7. ASSUME WorkerRetries(w) PROVE Quiet /\ Moves
  BY <1>5, <1>7 DEF WorkerRetries, history
<1> HIDE DEF Quiet, Moves
<1>8. Quiet /\ Moves
  BY <1>1, <1>3, <1>4, <1>6, <1>7 DEF Work
<1>. QED BY <1>8 DEF Quiet, Moves

\* Workers stay in turn.
LEMMA TurnInductive == TypeOK /\ TurnInv /\ [Next]_vars => TurnInv'
<1> SUFFICES ASSUME TypeOK, TurnInv, [Next]_vars
             PROVE  TurnInv'
  OBVIOUS
<1>p. PluginCount \in Nat
  BY ConcluderAssumption DEF ConcluderAssumption
<1>f. ASSUME NEW w, w.next = 1 PROVE InTurn(w)
  BY <1>f, <1>p DEF InTurn
<1>1. ASSUME \A w \in call_data_workers' :
               w \in call_data_workers \/ InTurn(w)
      PROVE  TurnInv'
  BY <1>1 DEF TurnInv
<1>2. ASSUME NEW c \in Calls, NEW list \in Recordings, conclude_call(c, list)
      PROVE  TurnInv'
  <2>1. \A w \in call_data_workers' :
          w \in call_data_workers \/ w = FirstTry(c)
    BY <1>2 DEF conclude_call, Superseded, NoTransmissions, TooShort, StartWorker
  <2>. QED BY <1>1, <1>f, <2>1, NewWorkers
<1>3. CASE manage_call_data_workers
  <2>1. \A w \in call_data_workers' :
          w \in call_data_workers \/ \E r : w = Retry(r)
    BY <1>3 DEF manage_call_data_workers, RestartDue
  <2>. QED BY <1>1, <1>f, <2>1, NewWorkers
<1>4. CASE \E w \in call_data_workers : Work(w)
  <2>1. PICK w \in call_data_workers : Work(w)
    BY <1>4
  <2>2. PICK w2 : Proceed(w, w2) /\ InTurn(w2)
    BY <2>1, WorkMoves
  <2>. QED BY <1>1, <2>2 DEF Proceed
<1>5. CASE \/ TerminatedByException \/ Wait \/ Exit \/ ExitSlept \/ Gone
           \/ \E stopped \in BOOLEAN : StopPlugin(stopped)
           \/ UNCHANGED vars
  <2>1. UNCHANGED call_data_workers
    BY <1>5 DEF TerminatedByException, Wait, Exit, ExitSlept, Gone,
                StopPlugin, vars, jobs
  <2>. QED BY <1>1, <2>1
<1>. QED BY <1>2, <1>3, <1>4, <1>5 DEF Next

\* The worker that a call has, and what it tells of the call, before and
\* after a step.
LEMMA StageOfWorker ==
  ASSUME OneJobPerCall, NEW w \in call_data_workers, NEW c, w.call = c
  PROVE  HasWorker(c) /\ WorkerOf(c) = w /\ StageOfCall(c) = StageOf(w)
<1>1. HasWorker(c)
  BY DEF HasWorker
<1>2. WorkerOf(c) = w
  BY DEF WorkerOf, OneJobPerCall
<1>. QED BY <1>1, <1>2 DEF StageOfCall

LEMMA StageOfNextWorker ==
  ASSUME OneJobPerCall', NEW w \in call_data_workers', NEW c, w.call = c
  PROVE  HasWorker(c)' /\ WorkerOf(c)' = w /\ StageOfCall(c)' = StageOf(w)
<1>1. HasWorker(c)'
  BY DEF HasWorker
<1>2. WorkerOf(c)' = w
  BY DEF WorkerOf, OneJobPerCall
<1>. QED BY <1>1, <1>2 DEF StageOfCall

\* The stage of a call that has no worker.
LEMMA StageOfOthers ==
  ASSUME NEW c
  PROVE  /\ ~HasWorker(c) =>
              /\ (\E r \in retry_call_list : r.call = c) =>
                   StageOfCall(c) = "waiting"
              /\ ~(\E r \in retry_call_list : r.call = c) =>
                   StageOfCall(c) = fate[c]
         /\ ~HasWorker(c)' =>
              /\ (\E r \in retry_call_list' : r.call = c) =>
                   StageOfCall(c)' = "waiting"
              /\ ~(\E r \in retry_call_list' : r.call = c) =>
                   StageOfCall(c)' = fate'[c]
BY DEF StageOfCall

\* A step that leaves the job of a call alone leaves its delivery alone.
LEMMA DeliveryUntouched ==
  ASSUME OneJobPerCall, OneJobPerCall', NEW c,
         fate'[c] = fate[c], tries'[c] = tries[c],
         \A w : w.call = c =>
           (w \in call_data_workers <=> w \in call_data_workers'),
         (\E r \in retry_call_list : r.call = c)
           <=> (\E r \in retry_call_list' : r.call = c)
  PROVE  UNCHANGED (Delivery(c)!deliveryVars)
<1> USE DEF Delivery!deliveryVars
<1>1. CASE HasWorker(c)
  <2>1. PICK w \in call_data_workers : w.call = c
    BY <1>1 DEF HasWorker
  <2>2. w \in call_data_workers'
    BY <2>1
  <2>3. HasWorker(c) /\ WorkerOf(c) = w /\ StageOfCall(c) = StageOf(w)
    BY <2>1, StageOfWorker
  <2>4. HasWorker(c)' /\ WorkerOf(c)' = w /\ StageOfCall(c)' = StageOf(w)
    BY <2>1, <2>2, StageOfNextWorker
  <2>. QED BY <2>3, <2>4
<1>2. CASE ~HasWorker(c)
  <2>1. ~HasWorker(c)'
    BY <1>2 DEF HasWorker
  <2>2. StageOfCall(c)' = StageOfCall(c)
    BY <1>2, <2>1, StageOfOthers
  <2>. QED BY <1>2, <2>1, <2>2
<1>. QED BY <1>1, <1>2

\* Concluding a call discards it or begins its delivery.
LEMMA ConcludeDelivers ==
  ASSUME TypeOK, OneJobPerCall, OneJobPerCall', NEW c \in Calls,
         NEW d \in Calls, NEW list \in Recordings, conclude_call(d, list)
  PROVE  [Delivery(c)!Next]_(Delivery(c)!deliveryVars)
<1> USE DEF Delivery!deliveryVars
<1>1. /\ fate[d] = "recording"
      /\ retry_call_list' = retry_call_list
  BY DEF conclude_call
<1>2. /\ ~HasWorker(d)
      /\ ~\E r \in retry_call_list : r.call = d
  BY <1>1 DEF OneJobPerCall, HasWorker
<1>3. StageOfCall(d) = "recording"
  BY <1>1, <1>2, StageOfOthers
<1>4. CASE StartWorker(d, list)
  <2>1. /\ call_data_workers' = call_data_workers \cup {FirstTry(d)}
        /\ fate' = [fate EXCEPT ![d] = "trying"]
        /\ tries' = [tries EXCEPT ![d] = 1]
    BY <1>4 DEF StartWorker
  <2>2. /\ FirstTry(d).call = d /\ FirstTry(d).at = "convert"
        /\ FirstTry(d).next = 1
    BY DEF FirstTry
  <2>3. CASE c = d
    <3>1. /\ HasWorker(d)' /\ WorkerOf(d)' = FirstTry(d)
          /\ StageOfCall(d)' = StageOf(FirstTry(d))
      BY <2>1, <2>2, StageOfNextWorker
    <3>2. StageOf(FirstTry(d)) = "combining" /\ AskedOf(FirstTry(d)) = 0
      BY <2>2, StageValues
    <3>3. tries'[d] = 1
      BY <2>1 DEF TypeOK
    <3>. QED BY <1>2, <1>3, <2>3, <3>1, <3>2, <3>3
             DEF Delivery!Next, Delivery!Begin
  <2>4. CASE c # d
    <3>1. fate'[c] = fate[c] /\ tries'[c] = tries[c]
      BY <2>1, <2>4 DEF TypeOK
    <3>2. \A w : w.call = c =>
            (w \in call_data_workers <=> w \in call_data_workers')
      BY <2>1, <2>2, <2>4
    <3>. QED BY <1>1, <3>1, <3>2, DeliveryUntouched
  <2>. QED BY <2>3, <2>4
<1>5. CASE Superseded(d, list) \/ NoTransmissions(d, list) \/ TooShort(d, list)
  <2>1. /\ fate' = [fate EXCEPT ![d] = "discarded"]
        /\ UNCHANGED <<call_data_workers, tries>>
    BY <1>5 DEF Superseded, NoTransmissions, TooShort
  <2>2. CASE c = d
    <3>1. fate'[d] = "discarded" /\ ~HasWorker(d)'
      BY <1>2, <2>1 DEF TypeOK, HasWorker
    <3>2. StageOfCall(d)' = "discarded"
      BY <1>1, <1>2, <3>1, StageOfOthers
    <3>. QED BY <1>2, <1>3, <2>1, <2>2, <3>1, <3>2
             DEF Delivery!Next, Delivery!Discard
  <2>3. CASE c # d
    <3>1. fate'[c] = fate[c]
      BY <2>1, <2>3 DEF TypeOK
    <3>. QED BY <1>1, <2>1, <3>1, DeliveryUntouched
  <2>. QED BY <2>2, <2>3
<1>. QED BY <1>4, <1>5 DEF conclude_call

\* A worker combines or converts, asks the next plugin or ends.
LEMMA WorkDelivers ==
  ASSUME TypeOK, TurnInv, OneJobPerCall, OneJobPerCall', NEW c \in Calls,
         NEW w \in call_data_workers, Work(w)
  PROVE  [Delivery(c)!Next]_(Delivery(c)!deliveryVars)
<1> USE DEF Delivery!deliveryVars
<1>1. PICK w2 : Proceed(w, w2) /\ WorkerMoved(w, w2)
  BY WorkMoves
<1>2. UNCHANGED <<retry_call_list, fate, tries>>
  BY WorkMoves
<1>3. call_data_workers' = (call_data_workers \ {w}) \cup {w2}
  BY <1>1 DEF Proceed
<1>4. w2.call = w.call
  BY <1>1 DEF WorkerMoved
<1>5. CASE w.call = c
  <2>1. HasWorker(c) /\ WorkerOf(c) = w /\ StageOfCall(c) = StageOf(w)
    BY <1>5, StageOfWorker
  <2>2. /\ HasWorker(c)' /\ WorkerOf(c)' = w2
        /\ StageOfCall(c)' = StageOf(w2)
    BY <1>3, <1>4, <1>5, StageOfNextWorker
  <2>. QED BY <1>1, <1>2, <2>1, <2>2
           DEF WorkerMoved, Delivery!Next, Delivery!Combine, Delivery!Ask,
               Delivery!Close
<1>6. CASE w.call # c
  <2>1. \A v : v.call = c =>
          (v \in call_data_workers <=> v \in call_data_workers')
    BY <1>3, <1>4, <1>6
  <2>. QED BY <1>2, <2>1, DeliveryUntouched
<1>. QED BY <1>5, <1>6

\* A call is never tried again in the pass that puts it on the list: what
\* the exclusive or leaves of a backoff is positive.
LEMMA RetriesWait ==
  ASSUME TypeOK, NEW jitter \in [Retried(Ready) -> Jitter],
         NEW w \in Retried(Ready)
  PROVE  ~(NextRetry(w, jitter[w]).process_call_time <= now)
<1>1. w \in Workers
  BY DEF Retried, Ready, TypeOK
<1> DEFINE n == w.retry_attempt + 1
           seconds == 60 * n
           backoff == Backoff(n)
<1>2. n \in Nat /\ n >= 1
  <2>1. w.retry_attempt \in Nat
    BY <1>1 DEF Workers
  <2>. QED BY <2>1
<1> HIDE DEF n
<1>3. seconds \in Int /\ seconds >= 60
  BY <1>2
<1>4. backoff = IF seconds % 4 < 2 THEN seconds + 2 ELSE seconds - 2
  BY DEF Backoff
<1> HIDE DEF seconds, backoff
<1>5. backoff \in Int /\ backoff >= 58
  BY <1>3, <1>4
<1>6. jitter[w] \in Nat
  <2>1. jitter[w] \in Jitter /\ Jitter \subseteq Nat
    BY ConcluderAssumption DEF ConcluderAssumption
  <2>. QED BY <2>1
<1>7. NextRetry(w, jitter[w]).process_call_time = now + backoff + jitter[w]
  BY DEF NextRetry, n, backoff
<1>8. now \in Int
  BY DEF TypeOK
<1> DEFINE j == jitter[w]
<1>9. ~(now + backoff + j <= now)
  <2>1. j \in Nat
    BY <1>6
  <2> HIDE DEF j
  <2>. QED BY <1>5, <1>8, <2>1
<1>. QED BY <1>7, <1>9

\* The pass over the futures and the retry list settles a call, postpones
\* its next try, begins it, or leaves the call alone.
LEMMA ManageDelivers ==
  ASSUME TypeOK, JobInv, OneJobPerCall', NEW c \in Calls,
         manage_call_data_workers
  PROVE  [Delivery(c)!Next]_(Delivery(c)!deliveryVars)
<1> USE DEF Delivery!deliveryVars
<1>1. PICK jitter \in [Retried(Ready) -> Jitter] :
        RestartDue(retry_call_list
                     \cup {NextRetry(w, jitter[w]) : w \in Retried(Ready)})
  BY DEF manage_call_data_workers
<1> DEFINE list == retry_call_list
                     \cup {NextRetry(w, jitter[w]) : w \in Retried(Ready)}
           due == {r \in list : r.process_call_time <= now}
<1>2. /\ retry_call_list' = list \ due
      /\ call_data_workers' = (call_data_workers \ Ready)
                                \cup {Retry(r) : r \in due}
      /\ tries' = [d \in Calls |-> IF \E r \in due : r.call = d
                                   THEN tries[d] + 1 ELSE tries[d]]
  BY <1>1 DEF RestartDue
<1>3. /\ \A w \in Ready : w.status # "EXCEPTION"
      /\ fate' = [d \in Calls |->
                    IF \E w \in Ready : w.call = d
                    THEN FateOf(CHOOSE w \in Ready : w.call = d)
                    ELSE fate[d]]
  BY DEF manage_call_data_workers
<1>4. \A q \in list :
        \/ q \in retry_call_list
        \/ \E w \in Retried(Ready) : /\ q.call = w.call
                                     /\ q = NextRetry(w, jitter[w])
  BY DEF NextRetry
<1>5. ASSUME NEW w \in Retried(Ready)
      PROVE  \E q \in list : q.call = w.call /\ q \notin due
  <2>1. NextRetry(w, jitter[w]) \in list
    OBVIOUS
  <2>2. NextRetry(w, jitter[w]).call = w.call
    BY DEF NextRetry
  <2>3. NextRetry(w, jitter[w]) \notin due
    BY RetriesWait
  <2>. QED BY <2>1, <2>2, <2>3
<1>6. due \subseteq list /\ retry_call_list \subseteq list
  OBVIOUS
<1>d. \A r \in list : r \in due <=> r.process_call_time <= now
  OBVIOUS
<1> HIDE DEF list, due
<1>7. /\ Ready \subseteq call_data_workers
      /\ \A w \in Ready : w.at = "ready"
      /\ Retried(Ready) \subseteq Ready
      /\ \A w \in Ready : w \in Retried(Ready) <=>
                            w.status = "RETRY" /\ ~GivesUp(w)
  BY DEF Ready, Retried
<1>8. \A r : /\ Retry(r).call = r.call
             /\ Retry(r).at = "plugins"
             /\ Retry(r).next = 1
  BY DEF Retry
<1>o. OneJobPerCall
  BY DEF JobInv
<1>u. \A q, r \in list : q.call = r.call => q = r
  BY <1>4, <1>7, <1>o DEF OneJobPerCall
<1>9. ASSUME NEW w \in Ready, w.call = c
      PROVE  [Delivery(c)!Next]_(Delivery(c)!deliveryVars)
  <2>1. HasWorker(c) /\ WorkerOf(c) = w /\ StageOfCall(c) = StageOf(w)
    BY <1>7, <1>9, <1>o, StageOfWorker
  <2>2. AskedOf(w) = 0
    BY <1>7, StageValues
  <2>3. fate'[c] = FateOf(w)
    <3>1. (CHOOSE v \in Ready : v.call = c) = w
      BY <1>7, <1>9, <1>o DEF OneJobPerCall
    <3>. QED BY <1>3, <1>9, <3>1
  <2>4. \A r \in list : r.call = c => w \in Retried(Ready) /\ r \notin due
    <3> SUFFICES ASSUME NEW r \in list, r.call = c
                 PROVE  w \in Retried(Ready) /\ r \notin due
      OBVIOUS
    <3>1. r \notin retry_call_list
      BY <1>7, <1>9, <1>o DEF OneJobPerCall
    <3>2. PICK v \in Retried(Ready) : r.call = v.call
      BY <1>4, <3>1
    <3>3. v = w
      BY <1>7, <1>9, <1>o, <3>2 DEF OneJobPerCall
    <3>4. PICK q \in list : q.call = v.call /\ q \notin due
      BY <1>5
    <3>. QED BY <1>u, <3>2, <3>3, <3>4
  <2>5. tries'[c] = tries[c] /\ ~HasWorker(c)'
    <3>1. ~\E r \in due : r.call = c
      BY <1>6, <2>4
    <3>2. ~\E v \in call_data_workers \ Ready : v.call = c
      BY <1>7, <1>9, <1>o DEF OneJobPerCall
    <3>3. ~HasWorker(c)'
      BY <1>2, <1>8, <3>1, <3>2 DEF HasWorker
    <3>. QED BY <1>2, <3>1, <3>3
  <2>6. w.retry_attempt \in Nat /\ tries[c] = w.retry_attempt + 1
        /\ w.retry_attempt <= MAX_RETRY
    <3>1. w \in Workers
      BY <1>7 DEF TypeOK
    <3>2. w.retry_attempt \in Nat
      BY <3>1 DEF Workers
    <3>. QED BY <1>7, <1>9, <3>2 DEF JobInv, Attempts
  <2>7. w.status \in {"SUCCESS", "RETRY", "FAILED"}
    <3>1. w \in Workers /\ w.at = "ready"
      BY <1>7 DEF TypeOK
    <3>. QED BY <1>3, <3>1, WorkerTypes
  <2>8. CASE w \in Retried(Ready)
    <3>1. PICK q \in list : q.call = c /\ q \notin due
      BY <1>5, <1>9, <2>8
    <3>2. \E r \in retry_call_list' : r.call = c
      BY <1>2, <3>1
    <3>3. StageOfCall(c)' = "waiting"
      BY <2>5, <3>2, StageOfOthers
    <3>4. w.status = "RETRY" /\ tries[c] <= MAX_RETRY
      BY <1>7, <2>6, <2>8 DEF GivesUp, MAX_RETRY
    <3>5. StageOfCall(c) = "refused"
      BY <1>7, <2>1, <3>4, StageValues
    <3>. QED BY <2>1, <2>2, <2>5, <3>3, <3>4, <3>5
             DEF Delivery!Next, Delivery!Postpone
  <2>9. CASE w \notin Retried(Ready)
    <3>1. ~\E r \in retry_call_list' : r.call = c
      BY <1>2, <2>4, <2>9
    <3>2. StageOfCall(c)' = FateOf(w)
      BY <2>3, <2>5, <3>1, StageOfOthers
    <3>3. CASE w.status = "SUCCESS"
      <4>1. StageOfCall(c) = "taken" /\ FateOf(w) = "delivered"
        BY <1>7, <2>1, <3>3, StageValues DEF FateOf
      <4>. QED BY <2>1, <2>2, <2>5, <3>2, <4>1
               DEF Delivery!Next, Delivery!Settle
    <3>4. CASE w.status = "FAILED"
      <4>1. StageOfCall(c) = "unusable" /\ FateOf(w) = "failed"
        BY <1>7, <2>1, <3>4, StageValues DEF FateOf
      <4>. QED BY <2>1, <2>2, <2>5, <3>2, <4>1
               DEF Delivery!Next, Delivery!Settle
    <3>5. CASE w.status = "RETRY"
      <4>1. GivesUp(w)
        BY <1>7, <2>9, <3>5
      <4>2. tries[c] = MAX_RETRY + 1
        BY <2>6, <4>1 DEF GivesUp, MAX_RETRY
      <4>3. StageOfCall(c) = "refused" /\ FateOf(w) = "dropped"
        BY <1>7, <2>1, <3>5, <4>1, StageValues DEF FateOf
      <4>. QED BY <2>1, <2>2, <2>5, <3>2, <4>2, <4>3
               DEF Delivery!Next, Delivery!Settle
    <3>. QED BY <2>7, <3>3, <3>4, <3>5
  <2>. QED BY <2>8, <2>9
<1>10. ASSUME \A w \in Ready : w.call # c,
              NEW r \in due, r.call = c
       PROVE  [Delivery(c)!Next]_(Delivery(c)!deliveryVars)
  <2>1. r \in retry_call_list
    BY <1>4, <1>6, <1>7, <1>10
  <2>2. ~HasWorker(c)
    BY <1>10, <1>o, <2>1 DEF HasWorker, OneJobPerCall
  <2>3. StageOfCall(c) = "waiting"
    BY <1>10, <2>1, <2>2, StageOfOthers
  <2>4. Retry(r) \in call_data_workers' /\ Retry(r).call = c
    BY <1>2, <1>8, <1>10
  <2>5. /\ HasWorker(c)' /\ WorkerOf(c)' = Retry(r)
        /\ StageOfCall(c)' = StageOf(Retry(r))
    BY <2>4, StageOfNextWorker
  <2>6. StageOf(Retry(r)) = "offered" /\ AskedOf(Retry(r)) = 0
    BY <1>8, StageValues
  <2>7. tries'[c] = tries[c] + 1
    BY <1>2, <1>10
  <2>. QED BY <2>2, <2>3, <2>5, <2>6, <2>7
           DEF Delivery!Next, Delivery!Repeat
<1>11. ASSUME \A w \in Ready : w.call # c, \A r \in due : r.call # c
       PROVE  [Delivery(c)!Next]_(Delivery(c)!deliveryVars)
  <2>1. fate'[c] = fate[c] /\ tries'[c] = tries[c]
    BY <1>2, <1>3, <1>11
  <2>2. \A w : w.call = c =>
          (w \in call_data_workers <=> w \in call_data_workers')
    BY <1>2, <1>8, <1>11
  <2>3. (\E r \in retry_call_list : r.call = c)
          <=> (\E r \in retry_call_list' : r.call = c)
    BY <1>2, <1>4, <1>6, <1>7, <1>11
  <2>. QED BY <1>o, <2>1, <2>2, <2>3, DeliveryUntouched
<1>. QED BY <1>9, <1>10, <1>11

\* Every step of the system is a step of each call's delivery, or none.
LEMMA DeliveryStep ==
  ASSUME TypeOK, JobInv, TurnInv, [Next]_vars, NEW c \in Calls
  PROVE  [Delivery(c)!Next]_(Delivery(c)!deliveryVars)
<1>o. OneJobPerCall /\ OneJobPerCall'
  BY JobsInductive DEF JobInv
<1>1. CASE \E d \in Calls, list \in Recordings : conclude_call(d, list)
  BY <1>1, <1>o, ConcludeDelivers
<1>2. CASE manage_call_data_workers
  BY <1>2, <1>o, ManageDelivers
<1>3. CASE \E w \in call_data_workers : Work(w)
  BY <1>3, <1>o, WorkDelivers
<1>4. CASE \/ TerminatedByException \/ Wait \/ Exit \/ ExitSlept \/ Gone
           \/ \E stopped \in BOOLEAN : StopPlugin(stopped)
           \/ UNCHANGED vars
  <2>1. UNCHANGED <<call_data_workers, retry_call_list, fate, tries>>
    BY <1>4 DEF TerminatedByException, Wait, Exit, ExitSlept, Gone,
                StopPlugin, vars, jobs, history
  <2>2. UNCHANGED (Delivery(c)!deliveryVars)
    BY <1>o, <2>1, DeliveryUntouched
  <2>. QED BY <2>2
<1>. QED BY <1>1, <1>2, <1>3, <1>4 DEF Next

LEMMA DeliveryInit == Init => TurnInv /\ \A c \in Calls : Delivery(c)!Init
<1> SUFFICES ASSUME Init PROVE TurnInv /\ \A c \in Calls : Delivery(c)!Init
  OBVIOUS
<1>1. TurnInv
  BY DEF Init, TurnInv
<1>2. ASSUME NEW c \in Calls PROVE Delivery(c)!Init
  <2>1. ~HasWorker(c) /\ ~\E r \in retry_call_list : r.call = c
    BY DEF Init, HasWorker
  <2>2. StageOfCall(c) = "recording" /\ tries[c] = 0
    BY <2>1, StageOfOthers DEF Init
  <2>. QED BY <2>1, <2>2 DEF Delivery!Init
<1>. QED BY <1>1, <1>2

\* Whatever the threads, plugins, clocks and other calls do, the call
\* concluder delivers every call as CallDelivery promises.
THEOREM ConcluderImplementsDelivery == Spec => ImplementsDelivery
<1>1. Init => TurnInv /\ \A c \in Calls : Delivery(c)!Init
  BY DeliveryInit
<1>2. TypeOK /\ TurnInv /\ [Next]_vars => TurnInv'
  BY TurnInductive
<1>3. TypeOK /\ JobInv /\ TurnInv /\ [Next]_vars =>
        [\A c \in Calls :
           [Delivery(c)!Next]_(Delivery(c)!deliveryVars)]_vars
  BY DeliveryStep
<1>. QED BY <1>1, <1>2, <1>3, JobsReachable, PTL DEF Spec, ImplementsDelivery

=============================================================================
