---------------------------- MODULE MCLifecycle ----------------------------
(* Instances of Lifecycle for TLC.                                         *)
EXTENDS Lifecycle

(* Everything configured, with and without a pool; the minimum a queue     *)
(* application accepts, with and without functions; nothing at all.        *)
MCConfigs == {Options, Options \ {"gpool", "mongo"}, {"handler"}, {"named"}, {}}
MCKinds == {"grpc", "http", "cron", "queue"}
==============================================================================
