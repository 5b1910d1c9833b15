----------------------------- MODULE MCTransport -----------------------------
(* EngineTransport with one Docker socket and two Podman sockets, for TLC.    *)
EXTENDS EngineTransport, TLC

CONSTANTS t1, t2, d1, m1, m2

Answering == d1 :> "docker" @@ m1 :> "podman" @@ m2 :> "podman"

\* Neither variable is set; DOCKER_HOST names a Podman socket and CONTAINER_HOST
\* the Docker one; CONTAINER_HOST names a machine.
ChoicesMade ==
    {[docker |-> NoHost, podman |-> NoHost], [docker |-> m2, podman |-> d1],
     [docker |-> NoHost, podman |-> Remote]}

\* `hyperbox doctor`; a create; the sealing of a Docker sandbox, which takes the steps
\* of any call of the runtime and those of with_retry.
CallsMade == {<<"detect", "auto">>, <<"engine", "podman">>, <<"seal", "docker">>}

Interchangeable == Permutations({t1, t2})
==============================================================================
