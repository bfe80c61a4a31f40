-------------------------------- MODULE Settings --------------------------------
(***************************************************************************)
(* The configuration of a bridge (internal/config/config.go), as every     *)
(* other module takes it for granted: what is filled in, what is refused,  *)
(* and which Kueue queue and priority class a partition gets.  A string    *)
(* that is not given is "", a number 0, a path <<>>; durations are in      *)
(* seconds.  A path is the sequence of its segments, "." first if it is    *)
(* relative.                                                               *)
(***************************************************************************)
EXTENDS Integers, Sequences, SequencesExt

Path == Seq(STRING)

\* A configuration, but for the pod template and for what only switches a feature.
Written ==
  [scheme    : {"https", "http", "ftp"},  \* of slurmRestURL
   host      : STRING,                    \* and the rest of it, "": not given
   plainHTTP : BOOLEAN,                   \* allowInsecureHTTP
   user : STRING, tokenFile : Path, caFile : Path, skipVerify : BOOLEAN,
   timeout : Int, rate : Int,             \* slurmRequestTimeout, ...PerSecond
   namespace : STRING, queue : STRING,
   mappings  : Seq([partition : STRING, class : STRING, queue : STRING]),
   image : STRING, authSecret : STRING,
   poll : Int, maxPriority : Int, grace : Int, workers : Int, retention : Int]

IfUnset(value, default) == IF value = 0 THEN default ELSE value

ApplyDefaults(c) ==
  [c EXCEPT !.poll    = IfUnset(@, 10),
            !.workers = IfUnset(@, 8),
            !.grace   = IfUnset(@, 3),
            !.timeout = IfUnset(@, 30)]

\* A second mapping of a partition would be ignored: the first one matches.
WrongUnshadowed(ms) == TRUE
Unshadowed(ms) == \A i, k \in DOMAIN ms : ms[i].partition = ms[k].partition => i = k

Validate(c) ==
  /\ c.host # "" /\ c.namespace # "" /\ c.queue # ""
  /\ c.mappings # <<>>
  /\ \A i \in DOMAIN c.mappings : c.mappings[i].partition # "" /\ c.mappings[i].class # ""
  /\ Unshadowed(c.mappings)
  /\ c.scheme = "https" \/ (c.scheme = "http" /\ c.plainHTTP)
  /\ c.poll >= 1
  /\ c.image # "" /\ c.authSecret # ""
  /\ c.maxPriority >= 0 /\ c.workers >= 0 /\ c.grace >= 0
  /\ c.rate \in 0..10000
  /\ c.timeout \in 1..600
  /\ c.retention \in 0..(7 * 24 * 3600)

\* filepath.Clean of an absolute path: no ".." is left, at the root it is dropped.
Clean(path) ==
  FoldLeft(LAMBDA done, seg : IF seg = ".." THEN (IF done = <<>> THEN done ELSE Front(done))
                              ELSE IF seg = "." THEN done ELSE Append(done, seg),
           <<>>, path)

\* Inside one of the directories, segment by segment.
ValidateFilePathAllowed(path, allowed) ==
  Head(path) # "." /\ \E dir \in allowed : IsPrefix(Clean(dir), Clean(path))

\* What a deployment allows objects to name, given to every process of it; an empty
\* allowlist allows everything.  An image is known by the prefix it matches.
ValidateImageAllowed(image, allowed) == image \in allowed

Vets(c, images, paths, insecureTLS) ==
  /\ images # {} => ValidateImageAllowed(c.image, images)
  /\ paths # {} => \A p \in {c.tokenFile, c.caFile} \ {<<>>} : ValidateFilePathAllowed(p, paths)
  /\ c.skipVerify => insecureTLS

-----------------------------------------------------------------------------
(* What the bridge asks of its configuration *)

Matching(c, p) == {i \in DOMAIN c.mappings : c.mappings[i].partition = p}

\* The first match wins.
First(S) == CHOOSE i \in S : \A k \in S : i <= k

PriorityClassFor(c, p) == c.mappings[First(Matching(c, p))].class

LocalQueueFor(c, p) ==
  LET own == {i \in Matching(c, p) : c.mappings[i].queue # ""}
  IN  IF own = {} THEN c.queue ELSE c.mappings[First(own)].queue

Partitions(c) == {c.mappings[i].partition : i \in DOMAIN c.mappings}

URL(c) == <<c.scheme, c.host>>

\* What the Slurm client is built from: a change of any of it needs another client.
EndpointIdentity(c) ==
  <<URL(c), c.user, c.tokenFile, c.caFile, c.skipVerify, c.timeout, c.rate>>

=============================================================================
