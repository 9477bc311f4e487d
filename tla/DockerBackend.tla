---------------------------- MODULE DockerBackend ----------------------------
(***************************************************************************)
(* DockerLabBackend (docker_lab_backend.py) over a Docker daemon.          *)
(*                                                                         *)
(* All runs of one lifecycle execute the plan the backend was configured   *)
(* with, so they use the same resource ids, names and labels; an object of *)
(* the daemon is therefore told apart by the run whose create command made *)
(* it ("Nobody" when there is no such object).                             *)
(*                                                                         *)
(* A command is one invocation of the docker client.  When the client      *)
(* fails or is killed at its deadline nothing is known of the daemon: the  *)
(* request may not have arrived, may have been carried out, or may be      *)
(* carried out later (a member of late).                                   *)
(***************************************************************************)
EXTENDS Integers

CONSTANTS
    Creators,      \* the runs whose commands the daemon receives
    Nobody,        \* "no object", "no handle"
    LateEffects,   \* may the daemon carry out an abandoned command later?
    ReadyDeadline  \* how long wait_ready may wait

ASSUME NobodyAssumption == Nobody \notin Creators
ASSUME LateEffectsAssumption == LateEffects \in BOOLEAN
ASSUME ReadyDeadlineAssumption == ReadyDeadline \in Nat \ {0}

VARIABLES
    networks,     \* _networks: the network whose handle is held
    containers,   \* _containers: the container whose handle is held
    hostPort,     \* _host_port: the container whose port is published
    net,          \* daemon: the labelled network
    ctr,          \* daemon: the labelled container
    running,      \* daemon: is that container running?
    late,         \* daemon: abandoned commands not carried out yet
    elapsed       \* what of its deadline the wait_ready under way has used

handleVars == <<networks, containers, hostPort>>
daemonVars == <<net, ctr, running, late>>
backendVars == <<networks, containers, hostPort, net, ctr, running, late>>

Owner == Creators \cup {Nobody}
Verbs == {"network create", "create", "start", "stop", "rm", "network rm"}
Command == [verb: Verbs, obj: Creators]

Cmd(v, r) == [verb |-> v, obj |-> r]

BackendInit ==
    /\ networks = Nobody /\ containers = Nobody /\ hostPort = Nobody
    /\ net = Nobody /\ ctr = Nobody /\ running = FALSE
    /\ late = {}
    /\ elapsed = 0

-----------------------------------------------------------------------------
(* The daemon (external: modelled from the commands the backend sends).    *)

\* Names are unique, starting needs the network, and a network cannot be
\* removed under a running container.
Accepts(c) ==
    CASE c.verb = "network create" -> net = Nobody
      [] c.verb = "create"         -> ctr = Nobody
      [] c.verb = "start"          -> ctr = c.obj /\ net # Nobody
      [] c.verb = "network rm"     -> net = c.obj /\ ~(running /\ ctr = c.obj)
      [] OTHER                     -> ctr = c.obj

Carries(c) ==
    /\ Accepts(c)
    /\ net' = CASE c.verb = "network create" -> c.obj
                [] c.verb = "network rm"     -> Nobody
                [] OTHER                     -> net
    /\ ctr' = CASE c.verb = "create" -> c.obj
                [] c.verb = "rm"     -> Nobody
                [] OTHER             -> ctr
    /\ running' = CASE c.verb = "start"          -> TRUE
                    [] c.verb \in {"stop", "rm"} -> FALSE
                    [] OTHER                     -> running

\* Asking about an object, or a request that never arrived.
NoEffect == UNCHANGED <<net, ctr, running, late>>

Confirmed(c) == Carries(c) /\ UNCHANGED late

\* The client did not report success: rejected, lost, carried out, or to come.
Unconfirmed(c) ==
    \/ NoEffect
    \/ Carries(c) /\ UNCHANGED late
    \/ LateEffects /\ late' = late \cup {c} /\ UNCHANGED <<net, ctr, running>>

Issue(c, e) == IF e = "ok" THEN Confirmed(c) ELSE Unconfirmed(c)

\* An abandoned command reaches the daemon after all; one that the daemon
\* rejects by then is gone too.
LateEffect(c) ==
    /\ c \in late
    /\ late' = late \ {c}
    /\ IF Accepts(c) THEN Carries(c) ELSE UNCHANGED <<net, ctr, running>>
    /\ UNCHANGED handleVars

\* The served model may die at any time.
ContainerExits ==
    /\ running
    /\ running' = FALSE
    /\ UNCHANGED <<net, ctr, late, networks, containers, hostPort>>

-----------------------------------------------------------------------------
(* The backend's methods, called for run r and ending with e.              *)

\* inspect_capabilities and pull_image touch no labelled resource.
inspect_capabilities(r, e) == UNCHANGED backendVars
pull_image(r, e) == UNCHANGED backendVars

\* Variants with a fault, for the mutation runs: the handle is the daemon's
\* answer and not a checked identifier; a timed-out creation is sent again; an
\* existing network counts as created; a held handle is overwritten.
create_network_unchecked(r, e) ==
    /\ Issue(Cmd("network create", r), e)
    /\ networks' = IF e = "ok" THEN Cmd("network create", r) ELSE networks
    /\ UNCHANGED <<containers, hostPort>>

create_network_retried(r, e) ==
    /\ networks = Nobody
    /\ IF e = "ok"
       THEN Carries(Cmd("network create", r)) /\ late' = late \cup {Cmd("network create", r)}
       ELSE Unconfirmed(Cmd("network create", r))
    /\ networks' = IF e = "ok" THEN r ELSE networks
    /\ UNCHANGED <<containers, hostPort>>

create_network_idempotent(r, e) ==
    \/ networks # Nobody /\ UNCHANGED backendVars
    \/ /\ networks = Nobody
       /\ Issue(Cmd("network create", r), e)
       /\ networks' = IF e = "ok" THEN r ELSE networks
       /\ UNCHANGED <<containers, hostPort>>

create_network_overwrites(r, e) ==
    /\ Issue(Cmd("network create", r), e)
    /\ networks' = IF e = "ok" THEN r ELSE networks
    /\ UNCHANGED <<containers, hostPort>>

\* The handle is recorded only after the client confirmed the creation.
create_network(r, e) ==
    \/ /\ e # "ok" /\ networks # Nobody
       /\ UNCHANGED backendVars
    \/ /\ networks = Nobody
       /\ Issue(Cmd("network create", r), e)
       /\ networks' = IF e = "ok" THEN r ELSE networks
       /\ UNCHANGED <<containers, hostPort>>

create_container(r, e) ==
    \/ /\ e # "ok" /\ (containers # Nobody \/ networks = Nobody)
       /\ UNCHANGED backendVars
    \/ /\ containers = Nobody /\ networks # Nobody
       /\ Issue(Cmd("create", r), e)
       /\ containers' = IF e = "ok" THEN r ELSE containers
       /\ UNCHANGED <<networks, hostPort>>

\* A method on a held handle first reads the object's labels: when the object
\* is gone, or the client fails, it raises before its command is sent.
OnHandle(h, exists, verb, e) ==
    \/ e # "ok" /\ NoEffect
    \/ exists /\ Issue(Cmd(verb, h), e)

start_container(r, e) ==
    \/ /\ e # "ok" /\ containers = Nobody
       /\ UNCHANGED backendVars
    \/ /\ containers # Nobody
       /\ OnHandle(containers, ctr = containers, "start", e)
       /\ hostPort' = IF e = "ok" THEN containers ELSE hostPort
       /\ UNCHANGED <<networks, containers>>

\* Something may answer a probe: the running container behind the published port.
Served == hostPort = ctr /\ running

\* wait_ready ends: with a probe that was answered, which one sent before the
\* deadline may be; with an error when there is no container or no port, when the
\* deadline has passed, or when a reply is no HTTP at all.
wait_ready(r, e) ==
    /\ e = "ok" => containers # Nobody /\ Served /\ elapsed < ReadyDeadline
    /\ e = "exception" =>
         \/ Nobody \in {containers, hostPort} \/ elapsed = ReadyDeadline \/ Served
    /\ UNCHANGED backendVars

\* Variant with a fault, for the mutation runs: the deadline is counted afresh at
\* each probe.
probe_afresh ==
    /\ Nobody \notin {containers, hostPort} /\ elapsed < ReadyDeadline
    /\ elapsed' = 0
    /\ UNCHANGED backendVars

\* One turn of its loop: nothing good answers the probe, and the pause is over.
probe ==
    /\ Nobody \notin {containers, hostPort} /\ elapsed < ReadyDeadline
    /\ elapsed' \in (elapsed + 1)..ReadyDeadline
    /\ UNCHANGED backendVars

\* Variant with a fault: nothing to stop is not an answer.
stop_container_waits(r, e) ==
    /\ containers # Nobody
    /\ OnHandle(containers, ctr = containers, "stop", e)
    /\ UNCHANGED handleVars

stop_container(r, e) ==
    \/ /\ e = "ok" /\ containers = Nobody
       /\ UNCHANGED backendVars
    \/ /\ containers # Nobody
       /\ OnHandle(containers, ctr = containers, "stop", e)
       /\ UNCHANGED handleVars

remove_container(r, e) ==
    \/ /\ e = "ok" /\ containers = Nobody
       /\ UNCHANGED backendVars
    \/ /\ containers # Nobody
       /\ OnHandle(containers, ctr = containers, "rm", e)
       /\ IF e = "ok" THEN containers' = Nobody /\ hostPort' = Nobody
                      ELSE UNCHANGED <<containers, hostPort>>
       /\ UNCHANGED networks

remove_network(r, e) ==
    \/ /\ e = "ok" /\ networks = Nobody
       /\ UNCHANGED backendVars
    \/ /\ networks # Nobody
       /\ OnHandle(networks, net = networks, "network rm", e)
       /\ networks' = IF e = "ok" THEN Nobody ELSE networks
       /\ UNCHANGED <<containers, hostPort>>

\* No handle is held and the daemon lists nothing under the labels.
Absent == networks = Nobody /\ containers = Nobody /\ net = Nobody /\ ctr = Nobody

\* Variant with a fault: only the handles are looked at.
verify_absent_by_handle(r, e, absent) ==
    /\ e = "ok" => (absent <=> networks = Nobody /\ containers = Nobody)
    /\ UNCHANGED backendVars

verify_absent(r, e, absent) ==
    /\ e = "ok" => (absent <=> Absent)
    /\ UNCHANGED backendVars

BackendTypeOK ==
    /\ networks \in Owner /\ containers \in Owner /\ hostPort \in Owner
    /\ net \in Owner /\ ctr \in Owner /\ running \in BOOLEAN
    /\ late \subseteq Command

=============================================================================
