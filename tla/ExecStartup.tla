---------------------------- MODULE ExecStartup ----------------------------
(***************************************************************************)
(* The start of the q15-exec process (systems/exec/internal/app): /nix is  *)
(* populated from the image when its markers are missing, the egress       *)
(* proxy is waited for, its CA bundle is written to a temporary directory, *)
(* and only then the service listens. The process may be killed between    *)
(* any two steps and starts again on the /nix it left.                     *)
(***************************************************************************)
EXTENDS Integers, Sequences

CONSTANTS TreeSize,   \* entries of the bootstrap tree below store/, at least one
          MaxStarts,  \* bound: starts of the process
          MaxRetries  \* bound: attempts to reach the proxy's admin service
ASSUME StartAssumption == TreeSize \in Nat \ {0}

VARIABLES boot,  \* the step of Serve the process is at
          nix,   \* the entries of /nix, in the order WalkDir visits them
          at,    \* the entry copyTree works on
          ca,    \* the CA bundle directory exists
          image, \* the image has zoneinfo, fonts and the nix-ld loader; fixed by the image
          tries, starts

startVars == <<boot, nix, at, ca, image, tries, starts>>

\* filepath.WalkDir visits names in lexical order: everything below store/ comes before var/, and
\* the profile link that makes bin/nix and bin/bash reachable is below var/.
Entries == 1..(TreeSize + 1)
ProfileLink == TreeSize + 1
EntryStates == {"absent", "partial", "whole"}

StartInit ==
    /\ boot = "down" /\ at = 0 /\ ca = FALSE /\ tries = 0 /\ starts = 0
    /\ nix = [e \in Entries |-> "absent"]
    /\ image \in BOOLEAN

Launch ==
    /\ boot = "down" /\ starts < MaxStarts
    /\ boot' = "check" /\ starts' = starts + 1 /\ tries' = 0
    /\ UNCHANGED <<nix, at, ca, image>>

\* fault: the store directory alone is taken for a usable runtime.
StoreExists == nix[1] # "absent"

\* store is a directory, and bin/nix and bin/bash exist and are executable, which they are through
\* the profile link.
nixRuntimeHealthy == nix[1] # "absent" /\ nix[ProfileLink] = "whole"

\* Missing markers, or missing paths of the image, start the copy; a source without its own markers
\* ends the start.
bootstrapNixRuntime ==
    /\ boot = "check"
    /\ IF nixRuntimeHealthy /\ image
       THEN boot' = "proxy" /\ UNCHANGED at
       ELSE \/ boot' = "copy" /\ at' = 1
            \/ boot' = "failed" /\ UNCHANGED at
    /\ UNCHANGED <<nix, ca, tries, starts, image>>

\* copyTree, one entry: opened with O_TRUNC, then written; links are replaced in one step.
copyOpen ==
    /\ boot = "copy" /\ at \in 1..TreeSize
    /\ nix' = [nix EXCEPT ![at] = "partial"]
    /\ boot' = "write"
    /\ UNCHANGED <<at, ca, tries, starts, image>>

copyTree ==
    /\ \/ boot = "write"
       \/ boot = "copy" /\ at = ProfileLink
    /\ \/ /\ nix' = [nix EXCEPT ![at] = "whole"]
          /\ at' = at + 1
          /\ boot' = IF at = ProfileLink THEN "recheck" ELSE "copy"
       \/ boot' = "failed" /\ UNCHANGED <<nix, at>>
    /\ UNCHANGED <<ca, tries, starts, image>>

\* The health checks are repeated; without the image's paths the start fails here.
Recheck ==
    /\ boot = "recheck"
    /\ boot' = IF nixRuntimeHealthy /\ image THEN "proxy" ELSE "failed"
    /\ UNCHANGED <<nix, at, ca, tries, starts, image>>

\* waitForProxyRuntime: unavailable and timed out attempts are repeated, anything else fails.
waitForProxyRuntime ==
    /\ boot = "proxy"
    /\ \/ boot' = "bundle" /\ UNCHANGED tries
       \/ tries < MaxRetries /\ tries' = tries + 1 /\ UNCHANGED boot
       \/ boot' = "failed" /\ UNCHANGED tries
    /\ UNCHANGED <<nix, at, ca, starts, image>>

\* fault: a bundle that cannot be written leaves its directory.
BundleFailureKept == boot = "bundle" /\ boot' = "failed" /\ ca' = TRUE

\* writeProxyCABundle removes its directory when a later step of it fails.
BundleFailure == boot = "bundle" /\ boot' = "failed" /\ ca' = ca

\* No CA, or the directory with the bundle; the environment of the sessions is built from it.
writeProxyCABundle ==
    /\ \/ boot = "bundle" /\ boot' = "listen" /\ ca' \in {ca, TRUE}
       \/ BundleFailure
    /\ UNCHANGED <<nix, at, tries, starts, image>>

\* NewManager, NewGRPCServer and net.Listen; a failure runs the deferred cleanupProxy.
Serve ==
    /\ boot = "listen"
    /\ \/ boot' = "serve" /\ UNCHANGED ca
       \/ boot' = "failed" /\ ca' = FALSE
    /\ UNCHANGED <<nix, at, tries, starts, image>>

\* SIGTERM: GracefulStop and cleanupProxy.
StopExec ==
    /\ boot = "serve"
    /\ boot' = "down" /\ ca' = FALSE
    /\ UNCHANGED <<nix, at, tries, starts, image>>

\* The container is started again: a new /tmp, the same /nix volume.
KillExec ==
    /\ boot # "down"
    /\ boot' = "down" /\ ca' = FALSE
    /\ UNCHANGED <<nix, at, tries, starts, image>>

StartNext ==
    \/ Launch \/ bootstrapNixRuntime \/ copyOpen \/ copyTree \/ Recheck
    \/ waitForProxyRuntime \/ writeProxyCABundle \/ Serve \/ StopExec \/ KillExec

StartSpec == StartInit /\ [][StartNext]_startVars

-----------------------------------------------------------------------------
\* Whatever was killed where, a service that reaches its proxy and listens has every file of the
\* store complete: a half-copied /nix never passes the health check, because the links the markers
\* are reached through are copied last.
ServesOnCompleteStore ==
    boot \in {"proxy", "bundle", "listen", "serve"} => \A e \in Entries : nix[e] = "whole"

\* A start that fails leaves no CA directory behind.
FailedStartCleansUp == boot = "failed" => ~ca
=============================================================================
