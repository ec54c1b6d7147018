---------------------------- MODULE MCKubeClient ----------------------------
(***************************************************************************)
(* Three manifests: the second drops a service, adds one and adds a port   *)
(* to the other; the third takes a port away, so that the one after it     *)
(* moves up, and brings the service back.                                  *)
(***************************************************************************)
EXTENDS KubeClient

Expose(port, global) == [port |-> port, global |-> global]
Service(name, expose) == [name |-> name, expose |-> expose]

MCManifests ==
    << <<Service("web", <<Expose(80, TRUE), Expose(22, TRUE)>>),
         Service("db", <<Expose(5432, FALSE)>>)>>,
       <<Service("web", <<Expose(80, TRUE), Expose(22, TRUE), Expose(25, TRUE)>>),
         Service("job", <<>>)>>,
       <<Service("web", <<Expose(80, TRUE), Expose(25, TRUE)>>),
         Service("db", <<Expose(5432, TRUE)>>)>> >>

MCNodePortName == [web |-> "web-np", db |-> "db-np", job |-> "job-np"]
=============================================================================
