-------------------------- MODULE MCCallConcluder --------------------------
(***************************************************************************)
(* CallConcluder on small instances, and the statement of the              *)
(* documentation that it does not meet.                                    *)
(***************************************************************************)
EXTENDS CallConcluder

T(name, length) == [name |-> name, length |-> length]

\* Two transmissions beside one that is too short; a call that is too short;
\* nothing but a short transmission; and a list that names a file twice.
MCRecordings ==
  {<<T("t1", 2), T("t2", 2), T("t3", 0)>>,
   <<T("t1", 1)>>,
   <<T("t1", 0)>>,
   <<T("t1", 2), T("t2", 2), T("t1", 2)>>}

MCOneRecording == {<<T("t1", 2)>>}

-----------------------------------------------------------------------------
(* A statement of the documentation.                                       *)

\* "Should the recorded audio files be kept after successfully uploading
\* them?" (audioArchive): what decides is a successful upload.  Recordings
\* that are removed although they are long enough were taken by every plugin
\* that was started.
RemovedAfterUpload ==
  \A c \in Calls :
    /\ tries[c] > 0
    /\ ~(Listed(recorded[c]) \subseteq temp[c])
    => Plugins \ Broken \subseteq accepted[c]

=============================================================================
