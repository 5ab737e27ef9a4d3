----------------------- MODULE ConfiguredAssetTarget -----------------------
(***************************************************************************)
(* The asset target a workspace publishes to: a directory or a bucket, by  *)
(* its configuration.  The enum ConfiguredAssetTarget hands every call to  *)
(* the one that is configured, and nothing ever reaches the other.         *)
(***************************************************************************)
EXTENDS BucketAssetTarget, FiniteSets

CONSTANTS Pids, Inodes, ReusesPids, NoFile, NoName   \* of FilesystemAssetTarget

VARIABLES
  configured,  \* "filesystem" or "r2"
  \* FilesystemAssetTarget.
  content, temp, object, described, pid, retired,
  fileSequence, filePc, fileAttempt, fileReady, fileFaults

files == <<content, temp, object, described, pid, retired,
           fileSequence, filePc, fileAttempt, fileReady, fileFaults>>

targets == <<configured, files, vars>>

Files == INSTANCE FilesystemAssetTarget WITH
  Procs    <- Machines,
  sequence <- fileSequence,
  pc       <- filePc,
  attempt  <- fileAttempt,
  ready    <- fileReady,
  faults   <- fileFaults

ASSUME FilesAssumption == Files!ConstantsOK

ConfiguredInit ==
  /\ configured \in {"filesystem", "r2"}
  /\ Files!Init
  /\ Init

ToFilesystem(action) == configured = "filesystem" /\ action /\ UNCHANGED <<configured, vars>>

ToBucket(action) == configured = "r2" /\ action /\ UNCHANGED <<configured, files>>

ConfiguredNext == ToFilesystem(Files!Next) \/ ToBucket(Next)

ConfiguredSpec == ConfiguredInit /\ [][ConfiguredNext]_targets

\* As each target assumes it.
ConfiguredFairSpec ==
  /\ ConfiguredSpec
  /\ \A p \in Machines :
       /\ WF_targets(ToFilesystem(Files!Step(p)))
       /\ WF_targets(ToBucket(Step(p)))
       /\ \A a \in Assets :
            /\ SF_targets(ToFilesystem(Files!Begin(p, a)))
            /\ SF_targets(ToBucket(Begin(p, a)))

----------------------------------------------------------------------------
(* Properties *)

\* The types of the variables of both targets, and that a writer of either stops
\* at the length of the asset.
TargetsTypeOK ==
  /\ configured \in {"filesystem", "r2"}
  /\ Files!TypeOK
  /\ TypeOK

\* Either target is one the engine can rely on, whatever failed, died, came late
\* or was raced: nothing but the frozen bytes is placed, never over an object, and
\* nothing is judged ready that is not there.
EitherImplementsTarget == Files!ImplementsTarget /\ ImplementsTarget

\* An asset that was judged ready in the directory stays ready: nothing the writers
\* do later changes its object or loses its metadata.  (In a bucket, others may.)
ReadyStaysReady == Files!ReadyStaysReady

\* With either target, an asset that is tried again and again becomes ready unless
\* something is in the way that only an operator can remove.
EitherSettles ==
  /\ configured = "filesystem" => Files!RetriesSettle
  /\ configured = "r2" => RetriesSettle
=============================================================================
