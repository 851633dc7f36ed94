--------------------------- MODULE Infrastructure ---------------------------
(* The operator's commands against the AWS account: aws:provision,         *)
(* deploy:ec2 and aws:teardown.  A command is a program of calls.  Each    *)
(* call may fail, with or without its effect, and the command may die      *)
(* between any two; the operator runs one command at a time, in any order  *)
(* and any number of times.                                                *)
(*                                                                         *)
(* The account is the set of facts that hold of it.  A name decides an     *)
(* ARN, so a resource created again is the one the others refer to.  AWS   *)
(* shows a change at once; a change that shows late is a call that fails.  *)
EXTENDS Naturals, Sequences, FiniteSets

CONSTANTS
    Settings,   \* what the operator's .env and account may be like
    Addresses,  \* from which the operator works
    MaxPages,   \* bound on pages of a thousand objects in the bucket
    MaxStops,   \* bound on instances stopped by hand
    MaxFailures \* bound on failed calls and dead commands

(* What a deploy looks up and no command creates: the account id in the    *)
(* scheduler role's ARN, a default VPC with a subnet, an image.            *)
Givens == {"roleArn", "subnet", "image"}

(* The day fields <<day of month, day of week>> of RECENT_SYNC_CRON, or    *)
(* <<>> when it has more or fewer than five fields.  "zero" is Sunday in   *)
(* cron and nothing in EventBridge.                                        *)
CronFields == ({"*", "set"} \X {"*", "set", "zero"}) \cup {<<>>}

ASSUME SettingsAssumption == Settings \subseteq [cron : CronFields, givens : SUBSET Givens]
ASSUME BoundAssumption == {MaxPages, MaxStops, MaxFailures} \subseteq Nat

VARIABLES
    aws,         \* facts about the account
    tagged,      \* instances up with the worker's name tag
    stopped,     \* instances stopped with it
    untagged,    \* instances up without it
    pages,       \* pages of objects in the bucket
    recent,      \* queues deleted within the last minute
    keyFile,     \* the private key is on the operator's disk
    sshFrom,     \* the address the security group's rule admits
    address,     \* the operator's
    moved,       \* history: it has changed since the group was created for it
    configured,  \* the .env file names the bucket and the queue
    swallowed,   \* facts whose deletion failed and was reported as done
    cmd,         \* the command that runs or ran last; ip is the address a
                 \* deploy read
    stops,       \* instances stopped so far
    failures

account == <<aws, tagged, stopped, untagged, pages, recent, keyFile, sshFrom, moved>>
awsVars == <<account, address, configured, swallowed, cmd, stops, failures>>

BucketFacts == {"bucket", "blocked", "encrypted", "lifecycle"}
ProvisionFacts ==
    {"bucket", "blocked", "encrypted", "dlq", "queue", "redrive",
     "schedulerRole", "schedulerPolicy", "schedule"}
WorkerFacts == {"ec2Role", "ec2Policy", "profile", "profileRole"}
Facts == ProvisionFacts \cup WorkerFacts \cup Givens
         \cup {"lifecycle", "group", "groupRule", "keyPair"}
Queues == {"queue", "dlq"}
NoAddress == "none"

----------------------------------------------------------------------------
(* Calls and programs *)

Call(kind, fact, needs) == [kind |-> kind, fact |-> fact, needs |-> needs, skip |-> 0]

(* Create the resource unless it is found, and skip the n calls after it   *)
(* when it is.                                                             *)
EnsureWith(fact, needs, n) == [Call("ensure", fact, needs) EXCEPT !.skip = n]
Ensure(fact) == EnsureWith(fact, {}, 0)
Put(fact, needs) == Call("put", fact, needs)
Drop(fact) == Call("drop", fact, {})

(* mutant: a bucket that is found is taken to be hardened.                 *)
EnsureBucketOnce == <<EnsureWith("bucket", {}, 2), Put("blocked", {"bucket"}),
                      Put("encrypted", {"bucket"})>>

EnsureBucket == <<Ensure("bucket"), Put("blocked", {"bucket"}), Put("encrypted", {"bucket"})>>

EnsureQueues == <<Ensure("dlq"), Ensure("queue"), Put("redrive", {"dlq", "queue"})>>

EnsureSchedulerRole ==
    <<Ensure("schedulerRole"), Put("schedulerPolicy", {"schedulerRole"})>>

(* Created, or updated when that conflicts.                                *)
EnsureSchedules == <<Put("schedule", {"queue", "schedulerRole"})>>

ProvisionProgram ==
    <<Call("look", "account", {})>> \o EnsureBucket \o EnsureQueues
    \o EnsureSchedulerRole \o EnsureSchedules

(* The role is added only to a profile created just now.                   *)
EnsureInstanceProfile ==
    <<Ensure("ec2Role"), Put("ec2Policy", {"ec2Role"}),
      EnsureWith("profile", {}, 1), Put("profileRole", {"profile", "ec2Role"})>>

(* mutant: the group is created without its rule.                          *)
EnsureClosedGroup == <<Ensure("group")>>

(* The rule admits the address this deploy read.  A group that is found    *)
(* keeps the rule it has.                                                  *)
EnsureSecurityGroup ==
    <<EnsureWith("group", {}, 1), Put("groupRule", {"group"})>>

(* Any failure of CreateKeyPair, or of writing the file, passes for a pair *)
(* that exists.                                                            *)
EnsureKeyPair == <<EnsureWith("keyPair", {}, 1), Call("write", "keyFile", {})>>

(* What is looked up before a call, and ends the command when it is not    *)
(* there, is one of the needs of the call.                                 *)
DeployProgram ==
    <<Call("running", "instance", {}), Put("lifecycle", {"roleArn", "subnet", "bucket"})>>
    \o EnsureInstanceProfile \o EnsureSecurityGroup \o EnsureKeyPair
    \o <<Call("launch", "instance", {"image", "profile", "profileRole", "group", "keyPair"}),
         Call("tag", "instance", {})>>

(* mutant: the queues go before the schedule that feeds them.              *)
QueuesFirst ==
    <<Call("terminate", "instance", {}), Drop("queue"), Drop("dlq"), Drop("schedule"),
      Drop("schedulerPolicy"), Drop("schedulerRole"), Call("empty", "bucket", {}),
      Drop("bucket")>>

(* mutant: the role goes before its inline policy.                         *)
RoleFirst ==
    <<Call("terminate", "instance", {}), Drop("schedule"), Drop("queue"), Drop("dlq"),
      Drop("schedulerRole"), Drop("schedulerPolicy"), Call("empty", "bucket", {}),
      Drop("bucket")>>

TeardownProgram ==
    <<Call("terminate", "instance", {}), Drop("schedule"), Drop("queue"), Drop("dlq"),
      Drop("schedulerPolicy"), Drop("schedulerRole"), Call("empty", "bucket", {}),
      Drop("bucket")>>

Program == [provision |-> ProvisionProgram, deploy |-> DeployProgram,
            teardown |-> TeardownProgram]

(* mutant: the day fields are passed on as they are.                       *)
DaysKept(cron) == cron

(* The day fields of the EventBridge expression; <<>> is the error thrown  *)
(* for another number of fields.                                           *)
ToEventBridgeExpression(cron) ==
    IF cron = <<>> THEN <<>>
    ELSE LET dom == IF cron[1] = "*" /\ cron[2] # "*" THEN "?" ELSE cron[1]
             dow == IF cron[2] = "*" /\ dom # "?" THEN "?" ELSE cron[2]
         IN  <<dom, dow>>

(* What EventBridge accepts: exactly one "?", and days from 1 to 7.        *)
Accepted(days) ==
    /\ days # <<>>
    /\ (days[1] = "?") # (days[2] = "?")
    /\ days[2] # "zero"

----------------------------------------------------------------------------
AwsInit ==
    /\ \E s \in Settings :
          /\ aws = s.givens
          /\ cmd = [name |-> "provision", at |-> 1, state |-> "idle", faulted |-> FALSE,
                    cron |-> s.cron, ip |-> NoAddress]
    /\ tagged = 0 /\ stopped = 0 /\ untagged = 0 /\ pages = 0 /\ recent = {}
    /\ keyFile = FALSE /\ configured = FALSE /\ swallowed = {}
    /\ address \in Addresses /\ sshFrom = NoAddress /\ moved = FALSE
    /\ stops = 0 /\ failures = 0

Running == cmd.state = "running"
Step == Program[cmd.name][cmd.at]

Failure == failures < MaxFailures /\ failures' = failures + 1

(* Deploying is refused until .env has been filled in.                     *)
Start(name) ==
    /\ ~Running
    /\ name = "deploy" => configured
    /\ cmd' = [cmd EXCEPT !.name = name, !.at = 1, !.state = "running", !.faulted = FALSE,
                             !.ip = NoAddress]
    /\ UNCHANGED <<account, address, configured, swallowed, stops, failures>>

(* The operator copies the summary of a complete provision into .env.      *)
Configure ==
    /\ cmd.name = "provision" /\ cmd.state = "done"
    /\ configured' = TRUE
    /\ UNCHANGED <<account, address, swallowed, cmd, stops, failures>>

(* A worker, on the instance or elsewhere, stores media.                   *)
Store ==
    /\ configured /\ "bucket" \in aws /\ pages < MaxPages
    /\ pages' = pages + 1
    /\ UNCHANGED <<aws, tagged, stopped, untagged, recent, keyFile, sshFrom, moved>>
    /\ UNCHANGED <<address, configured, swallowed, cmd, stops, failures>>

(* A minute after its deletion a queue may be created again.               *)
MinutePasses(queue) ==
    /\ queue \in recent
    /\ recent' = recent \ {queue}
    /\ UNCHANGED <<aws, tagged, stopped, untagged, pages, keyFile, sshFrom, moved>>
    /\ UNCHANGED <<address, configured, swallowed, cmd, stops, failures>>

(* The operator's address changes, while a command runs too.               *)
Moves(to) ==
    /\ to # address
    /\ address' = to
    /\ moved' = TRUE
    /\ UNCHANGED <<aws, tagged, stopped, untagged, pages, recent, keyFile, sshFrom>>
    /\ UNCHANGED <<configured, swallowed, cmd, stops, failures>>

(* The operator stops or resumes the worker's instance by hand.            *)
StopsInstance ==
    /\ tagged > 0 /\ stops < MaxStops
    /\ tagged' = tagged - 1 /\ stopped' = stopped + 1 /\ stops' = stops + 1
    /\ UNCHANGED <<aws, untagged, pages, recent, keyFile, sshFrom, moved>>
    /\ UNCHANGED <<address, configured, swallowed, cmd, failures>>

ResumesInstance ==
    /\ stopped > 0
    /\ tagged' = tagged + 1 /\ stopped' = stopped - 1
    /\ UNCHANGED <<aws, untagged, pages, recent, keyFile, sshFrom, moved>>
    /\ UNCHANGED <<address, configured, swallowed, cmd, stops, failures>>

Goto(n) ==
    cmd' = IF n > Len(Program[cmd.name])
           THEN [cmd EXCEPT !.state = "done", !.at = n]
           ELSE [cmd EXCEPT !.at = n]
Continue == Goto(cmd.at + 1)

(* What goes with a resource that is deleted.                              *)
DroppedWith(fact) ==
    CASE fact = "bucket" -> BucketFacts
      [] fact = "queue"  -> {"queue", "redrive"}
      [] OTHER           -> {fact}

(* AWS refuses to delete a role with a policy, and a bucket with objects.  *)
Deletable(fact) ==
    /\ fact \in aws
    /\ fact = "schedulerRole" => "schedulerPolicy" \notin aws
    /\ fact = "bucket" => pages = 0

(* Whether AWS accepts the call, and what was looked up before it is       *)
(* there.  A queue is not created again within a minute.                   *)
Works ==
    /\ Step.needs \subseteq aws
    /\ Step.kind = "ensure" => Step.fact \notin recent
    /\ Step.fact = "schedule" /\ Step.kind = "put" => Accepted(ToEventBridgeExpression(cmd.cron))
    /\ Step.kind = "drop" => Deletable(Step.fact)
    /\ Step.kind = "empty" => "bucket" \in aws

(* What the call does to the account.                                      *)
Effect ==
    /\ aws' = CASE Step.kind \in {"ensure", "put"} -> aws \cup {Step.fact}
                [] Step.kind = "drop"              -> aws \ DroppedWith(Step.fact)
                [] OTHER                           -> aws
    /\ untagged' = CASE Step.kind = "launch" -> untagged + 1
                     [] Step.kind = "tag"    -> untagged - 1
                     [] OTHER                -> untagged
    /\ tagged' = CASE Step.kind = "tag"       -> tagged + 1
                   [] Step.kind = "terminate" -> 0
                   [] OTHER                   -> tagged
    /\ stopped' = IF Step.kind = "terminate" THEN 0 ELSE stopped
    /\ recent' = IF Step.kind = "drop" THEN recent \cup ({Step.fact} \cap Queues) ELSE recent
    /\ sshFrom' = IF Step.fact = "groupRule" THEN cmd.ip ELSE sshFrom
    /\ moved' = IF Step.fact = "group" /\ "group" \notin aws THEN cmd.ip # address ELSE moved
    /\ pages' = IF Step.kind = "empty" THEN (IF pages = 0 THEN 0 ELSE pages - 1) ELSE pages
    /\ keyFile' = (keyFile \/ Step.kind = "write")

NoEffect == UNCHANGED account

Is(kinds) == Running /\ Step.kind \in kinds

(* The resource is there already.                                          *)
Found ==
    /\ Is({"ensure"})
    /\ Step.fact \in aws
    /\ Goto(cmd.at + 1 + Step.skip)
    /\ NoEffect
    /\ UNCHANGED <<address, configured, swallowed, stops, failures>>

(* mutant: the launch is not guarded.                                      *)
NeverUp == FALSE

(* A stopped instance is not seen.                                         *)
AlreadyRunning == tagged > 0

(* Deploy refuses to launch a second instance; otherwise it reads the      *)
(* operator's address.                                                     *)
CheckRunning ==
    /\ Is({"running"})
    /\ IF AlreadyRunning
       THEN cmd' = [cmd EXCEPT !.state = "done"]
       ELSE cmd' = [cmd EXCEPT !.at = 2, !.ip = address]
    /\ NoEffect
    /\ UNCHANGED <<address, configured, swallowed, stops, failures>>

(* Whether the code makes the call at all.                                 *)
IsMade == Step.kind = "empty" => configured

(* A teardown without S3_BUCKET leaves the bucket alone.                   *)
NoBucketSet ==
    /\ Is({"empty"})
    /\ ~IsMade
    /\ Goto(cmd.at + 2)
    /\ NoEffect
    /\ UNCHANGED <<address, configured, swallowed, stops, failures>>

(* Emptying goes on while the listing was truncated.                       *)
CallWorks ==
    /\ Running
    /\ Step.kind # "running"
    /\ Step.kind = "ensure" => Step.fact \notin aws
    /\ IsMade
    /\ Works
    /\ Effect
    /\ IF Step.kind = "empty" /\ pages > 1 THEN UNCHANGED cmd ELSE Continue
    /\ swallowed' = swallowed \ {Step.fact}
    /\ UNCHANGED <<address, configured, stops, failures>>

(* Errors the code catches: every deletion but that of the bucket, and     *)
(* the key pair.                                                           *)
Caught ==
    \/ Step.kind = "terminate"
    \/ Step.kind = "drop" /\ Step.fact # "bucket"
    \/ Step.fact \in {"keyPair", "keyFile"}

(* A failed key pair also skips writing the file.                          *)
AfterError(faulted) ==
    cmd' = IF Caught
           THEN [cmd EXCEPT !.at = @ + 1 + Step.skip, !.faulted = @ \/ faulted]
           ELSE [cmd EXCEPT !.state = "failed", !.faulted = @ \/ faulted]

(* AWS refuses the call.                                                   *)
Refused ==
    /\ Running
    /\ IsMade
    /\ ~Works
    /\ AfterError(FALSE)
    /\ NoEffect
    /\ UNCHANGED <<address, configured, swallowed, stops, failures>>

(* The call fails, before or after it took effect.                         *)
CallFails ==
    /\ Running
    /\ IsMade
    /\ Failure
    /\ NoEffect \/ (Works /\ Effect)
    /\ AfterError(TRUE)
    /\ swallowed' = IF Step.kind = "drop" /\ Caught THEN swallowed \cup {Step.fact} ELSE swallowed
    /\ UNCHANGED <<address, configured, stops>>

(* The command dies between two calls.                                     *)
Dies ==
    /\ Running
    /\ Failure
    /\ cmd' = [cmd EXCEPT !.state = "failed", !.faulted = TRUE]
    /\ NoEffect
    /\ UNCHANGED <<address, configured, swallowed, stops>>

AwsNext ==
    \/ \E name \in DOMAIN Program : Start(name)
    \/ Configure \/ Store \/ StopsInstance \/ ResumesInstance
    \/ \E queue \in Queues : MinutePasses(queue)
    \/ \E to \in Addresses : Moves(to)
    \/ Found \/ CheckRunning \/ NoBucketSet \/ CallWorks
    \/ Refused \/ CallFails \/ Dies

AwsSpec == AwsInit /\ [][AwsNext]_awsVars

----------------------------------------------------------------------------
Ended(name, state) == cmd.name = name /\ cmd.state = state

(* A provision that reports success has left every resource in place, the  *)
(* bucket hardened and the queue wired, whatever earlier provisions and    *)
(* teardowns left half done.                                               *)
ProvisionIsComplete == Ended("provision", "done") => ProvisionFacts \subseteq aws

(* The day fields no EventBridge expression of the code's has.             *)
Inexpressible(cron) == cron = <<>> \/ cron[2] = "zero" \/ cron = <<"set", "set">>

(* Why a command may fail without a fault.  A provision: its cron cannot   *)
(* be expressed, or a teardown deleted the queue less than a minute ago.   *)
(* A deploy: the account lacks what it looks up, the bucket is gone, or an *)
(* earlier deploy was cut off between creating the profile and giving it   *)
(* its role.  A teardown: the bucket is gone, or filled again while it was *)
(* being emptied.                                                          *)
Excuse ==
    \/ Step.fact = "schedule" /\ Inexpressible(cmd.cron)
    \/ Step.fact \in recent
    \/ Step.fact = "lifecycle" /\ ~({"roleArn", "subnet", "bucket"} \subseteq aws)
    \/ Step.kind = "launch" /\ "image" \notin aws
    \/ Step.kind = "launch" /\ "profileRole" \notin aws /\ failures > 0
    \/ cmd.name = "teardown" /\ Step.fact = "bucket" /\ ("bucket" \notin aws \/ pages > 0)

(* No other half-done state wedges a command: one that meets no fault      *)
(* itself ends in an error only for one of these reasons.                  *)
NothingElseWedges ==
    [][Running /\ cmd'.state = "failed" /\ ~cmd'.faulted => Excuse]_awsVars

(* At most one instance carries the name tag, and one more for each that   *)
(* was stopped, which deploy:ec2 does not see; one more without the tag is *)
(* up for each deploy that was cut off between its launch and its tag.     *)
OneWorkerPerFault ==
    /\ tagged + stopped <= 1 + stops
    /\ tagged + stopped + untagged <= 1 + stops + failures

(* An instance comes up only with the role, the policy and the expiry rule *)
(* it was planned with.  When nothing ever failed, its key is on the       *)
(* operator's disk and its group admits the operator, unless the           *)
(* operator's address changed after the group was created for it.          *)
LaunchedIsEquipped ==
    Running /\ Step.kind = "tag" =>
       /\ WorkerFacts \cup {"bucket", "lifecycle"} \subseteq aws
       /\ failures = 0 => "groupRule" \in aws /\ keyFile /\ (sshFrom = address \/ moved)

(* A teardown that met no fault leaves no tagged instance, up or stopped,  *)
(* and nothing that aws:provision created, save the bucket when .env does  *)
(* not name it.                                                            *)
TeardownIsComplete ==
    Ended("teardown", "done") /\ ~cmd.faulted =>
       /\ tagged = 0 /\ stopped = 0
       /\ aws \cap ProvisionFacts \subseteq (IF configured THEN {} ELSE BucketFacts)

(* A schedule always has the queue and the role it needs to deliver, at    *)
(* every step of a provision or a teardown, unless its own deletion failed *)
(* and the error was taken for "does not exist".                           *)
ScheduleHasItsTarget ==
    "schedule" \in aws \ swallowed => {"queue", "schedulerRole", "schedulerPolicy"} \subseteq aws

----------------------------------------------------------------------------
(* The inductive invariant of the properties above.  What an earlier       *)
(* command left behind is only half done after a fault, and a command that *)
(* runs has done the calls before the one it is at.                        *)

At(name, n) == Running /\ cmd.name = name /\ cmd.at = n
UnderWay(name) == cmd.name = name /\ cmd.state \in {"running", "done"}

Command == [name : DOMAIN Program, at : Nat \ {0},
            state : {"idle", "running", "done", "failed"},
            faulted : BOOLEAN, cron : CronFields, ip : Addresses \cup {NoAddress}]

(* The type invariant: the account's facts, and a command inside its       *)
(* program or past its end.                                                *)
AwsTypeOK ==
    /\ aws \subseteq Facts /\ swallowed \subseteq Facts
    /\ tagged \in Nat /\ stopped \in Nat /\ untagged \in Nat
    /\ pages \in Nat /\ stops \in Nat /\ failures \in Nat
    /\ recent \subseteq Queues
    /\ keyFile \in BOOLEAN /\ configured \in BOOLEAN /\ moved \in BOOLEAN
    /\ address \in Addresses /\ sshFrom \in Addresses \cup {NoAddress}
    /\ cmd \in Command
    /\ Running => cmd.at <= Len(Program[cmd.name])
    /\ cmd.state = "done" /\ cmd.name # "deploy" => cmd.at = Len(Program[cmd.name]) + 1

(* Calls of a provision are never skipped.                                 *)
ProvisionInv ==
    UnderWay("provision") => \A m \in 2 .. cmd.at - 1 : ProvisionProgram[m].fact \in aws

(* The calls of a deploy that are never skipped, and the key pair.         *)
DeployInv ==
    cmd.name = "deploy" /\ Running =>
       /\ cmd.at > 1 => tagged + stopped <= stops
       /\ \A m \in {2, 3, 4, 5, 7} : m < cmd.at => DeployProgram[m].fact \in aws
       /\ cmd.at = 10 => "keyPair" \in aws
       /\ cmd.at = 11 => "keyPair" \in aws \/ cmd.faulted
       /\ cmd.at = 12 => {"profileRole", "keyPair"} \subseteq aws /\ untagged > 0

(* Deletions whose errors are swallowed are done if there was no fault.    *)
TeardownInv ==
    UnderWay("teardown") =>
       /\ cmd.at > 2 => "schedule" \notin aws \ swallowed
       /\ ~cmd.faulted =>
             /\ cmd.at > 1 => tagged = 0 /\ stopped = 0
             /\ \A m \in 2 .. 6 :
                   m < cmd.at => DroppedWith(TeardownProgram[m].fact) \cap aws = {}
             /\ cmd.at = 8 => configured
             /\ cmd.state = "done" /\ configured => BucketFacts \cap aws = {}

DependenceInv ==
    /\ "lifecycle" \in aws => "bucket" \in aws
    /\ "redrive" \in aws => "queue" \in aws

(* A resource that is found lacks what was to follow its creation only if  *)
(* a deploy was cut off there.                                             *)
HalfDoneInv ==
    /\ "profile" \in aws /\ "profileRole" \notin aws => failures > 0 \/ At("deploy", 6)
    /\ "group" \in aws /\ "groupRule" \notin aws => failures > 0 \/ At("deploy", 8)
    /\ "keyPair" \in aws /\ ~keyFile => failures > 0 \/ At("deploy", 10)

WorkerInv ==
    /\ stopped <= stops /\ tagged + stopped <= 1 + stops
    /\ untagged <= failures + (IF At("deploy", 12) THEN 1 ELSE 0)

(* The rule names the address the group was created for.                   *)
AddressInv ==
    /\ "groupRule" \in aws => "group" \in aws
    /\ "groupRule" \in aws /\ ~moved => sshFrom = address
    /\ At("deploy", 8) /\ ~moved => cmd.ip = address

AwsInv ==
    /\ AwsTypeOK /\ ProvisionInv /\ DeployInv /\ TeardownInv
    /\ DependenceInv /\ HalfDoneInv /\ WorkerInv /\ AddressInv
    /\ ScheduleHasItsTarget
=============================================================================
