-------------------------------- MODULE MCFleet --------------------------------
(***************************************************************************)
(* Instances of Fleet for TLC: objects and what their specs say.           *)
(***************************************************************************)
EXTENDS Fleet

CONSTANTS a, b

TwoObjects == {a, b}

Mapping(p, lq) == [partition |-> p, class |-> "class-" \o p, queue |-> lq]

\* Nothing optional is given; the deployment allows this image and this path.
Plain == [scheme |-> "https", host |-> "slurm", plainHTTP |-> FALSE, user |-> "",
          tokenFile |-> <<"etc", "k8s-bridge", "token">>, caFile |-> <<>>, skipVerify |-> FALSE,
          timeout |-> 0, rate |-> 0, namespace |-> "slurm-jobs", queue |-> "main",
          mappings |-> <<Mapping("p", "")>>, image |-> "slurmd", authSecret |-> "key",
          poll |-> 0, maxPriority |-> 0, grace |-> 0, workers |-> 0, retention |-> 0]

Images == {"slurmd"}
Paths  == {<<"etc", "k8s-bridge">>}

Dictionary ==
  [p        |-> Plain,
   pq       |-> [Plain EXCEPT !.mappings = <<Mapping("p", "team"), Mapping("q", "")>>],
   qLimited |-> [Plain EXCEPT !.mappings = <<Mapping("q", "")>>, !.rate = 5],
   shadowed |-> [Plain EXCEPT !.mappings = <<Mapping("p", ""), Mapping("p", "team")>>],
   escaping |-> [Plain EXCEPT !.tokenFile = <<"etc", "k8s-bridge", "..", "token">>]]

\* Two partitions, one alone, one alone at another rate, and one that is refused:
\* everywhere, or by a supervisor only.
Claims    == {"pq", "p", "qLimited", "shadowed", "escaping"}
Started   == {"pq"}

SayClaims == [s \in Claims |-> Dictionary[s]]

=============================================================================
