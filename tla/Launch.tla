------------------------------- MODULE Launch -------------------------------
(***************************************************************************)
(* How Porter makes its control socket and starts the job script: the      *)
(* first part of main in src/c_src/porter/porter.cpp, porter_ctrl_listen,  *)
(* wm_safe_file.cpp and drop_privileges.  Nobody else takes part in a      *)
(* start, so it is a function of the host it finds: each step takes the    *)
(* owners of the directories and gives them back, or the child ends.       *)
(*                                                                         *)
(* A host is                                                               *)
(*   root     Porter runs as root of the container, else as the job's user *)
(*   user     the user the job is to run as                                *)
(*   known    getpwnam finds that user within its 20 attempts              *)
(*   kept     what the child passes to getpwnam is still the name: it is   *)
(*            the memory of a temporary that is gone (line 467)            *)
(*   spool    SWM_SPOOL is set in the container; job_create_env of         *)
(*            wm_podman does not set it                                    *)
(*   used     another Porter of the job has left its files in the spool    *)
(*   disk     the disk takes files                                         *)
(*   bound    the socket can be bound                                      *)
(***************************************************************************)
EXTENDS Naturals

User == {"root", "job"}
Host == [root : BOOLEAN, user : User, known : BOOLEAN, kept : BOOLEAN,
         spool : BOOLEAN, used : BOOLEAN, disk : BOOLEAN, bound : BOOLEAN]

Runs(h) == IF h.root THEN "root" ELSE "job"     \* the effective user of Porter
Nobody == "nobody"                              \* owner of what does not exist

(* job_runtime_dir: one directory in the spool, or else two of mkdtemp.    *)
ScriptDir(h) == IF h.spool THEN "job" ELSE "script"
CtrlDir(h) == IF h.spool THEN "job" ELSE "ctrl"
Found(h) == [d \in {"job", "script", "ctrl"} |-> IF d = "job" /\ h.used THEN h.user ELSE Nobody]

(* ensure_private_dir for user u: mkdir, chmod 0700, and chown, which root *)
(* leaves out on behalf of another user (rootless podman).  <<>> is false. *)
PrivateDir(h, fs, d, u) ==
    LET owner == IF fs[d] = Nobody THEN Runs(h) ELSE fs[d]
        skip == h.root /\ u # "root"
    IN IF /\ h.disk
          /\ h.root \/ owner = "job"
          /\ h.root \/ u = "job"
       THEN <<[fs EXCEPT ![d] = IF skip THEN owner ELSE u]>> ELSE <<>>

(* porter_ctrl_listen, before the fork and with uid 0 for an unknown user: *)
(* here root does give the directory to the job's user.  A socket that is  *)
(* there is replaced.  When it fails the script runs all the same, without *)
(* SWM_PORTER_CTRL.                                                        *)
Listen(h) ==
    LET u == IF h.known THEN h.user ELSE "root"
        fs == PrivateDir(h, Found(h), CtrlDir(h), u)
    IN IF fs = <<>> THEN [fs |-> Found(h), socket |-> FALSE]
       ELSE [fs |-> [fs[1] EXCEPT ![CtrlDir(h)] = u], socket |-> h.bound]

(* save_script: job.sh is created exclusively, and whole or not at all.    *)
ScriptSaved(h, fs) ==
    LET dir == PrivateDir(h, fs, ScriptDir(h), h.user)
    IN IF h.spool /\ h.used THEN <<>> ELSE dir

(* set_job_dir_ownership and open_job_logs: the directories belong to who  *)
(* Porter runs as.                                                         *)
LogsOpenedLate(h) == h.root => h.user = "root"      \* mutant: after set_uid_gid
LogsOpened(h) == h.root \/ h.user = "job"

(* set_uid_gid.                                                            *)
MayBecome(h) == h.root \/ h.user = "job"

(* /bin/sh -c of the script as the job's user, in a directory of mode 0700. *)
MayEnter(h, fs) == h.user \in {"root", fs[ScriptDir(h)]}

(* The child: the code it ends with, or "run".                             *)
Started(h) ==
    LET fs == ScriptSaved(h, Listen(h).fs)
    IN IF ~h.known \/ ~h.kept THEN "EXIT_USER_NOT_FOUND"
       ELSE IF fs = <<>> THEN "EXIT_FAILURE"
       ELSE IF ~LogsOpened(h) THEN "EXIT_FILE_ERROR"
       ELSE IF ~MayBecome(h) THEN "EXIT_SYSTEM_ERROR"
       ELSE IF MayEnter(h, fs[1]) THEN "run" ELSE "126"
=============================================================================
