------------------------------ MODULE Channels ------------------------------
(***************************************************************************)
(* A channel of an app, the branch it is mapped to, its progressive         *)
(* rollout to a second branch, and the branches: creation, deletion,        *)
(* protection.  Every statement is two steps, its snapshot and its write:   *)
(* subqueries see the snapshot, the row written is the last version, and    *)
(* foreign keys and unique constraints hold whatever the snapshot saw.      *)
(* A channel is named, a branch is named, and both get a new id when they   *)
(* are created again.                                                       *)
(***************************************************************************)
EXTENDS Naturals

CONSTANTS
    Names,          \* names of branches
    Percentages,    \* percentages a rollout may be given
    Requests,       \* requests in flight
    NoOne,          \* nobody has locked the channel row
    MaxIds          \* bound on the ids given to branches of a name, channels, rollouts

ASSUME PercentagesAssumption == Percentages \subseteq 1..99
ASSUME NoOneAssumption == NoOne \notin Requests
ASSUME MaxIdsAssumption == MaxIds \in Nat \ {0}

VARIABLES
    branches,       \* the last row of branches under each name
    channel,        \* the last row of channels under the channel's name
    rollout,        \* the row of channel_rollouts for that channel
    lock,           \* the promotion that holds the channel row
    req             \* the requests in flight

vars == <<branches, channel, rollout, lock, req>>

-----------------------------------------------------------------------------
NoBranch == <<"none", 0>>
BranchIds == Names \X (1..MaxIds)

Exists(b) == b \in BranchIds /\ branches[b[1]].live /\ branches[b[1]].id = b[2]
BranchId(n) == IF branches[n].live THEN <<n, branches[n].id>> ELSE NoBranch

NoRollout == [on |-> FALSE, id |-> 0, branch |-> NoBranch, percentage |-> 0]

Idle == [pc |-> "idle", op |-> "none", name |-> "none", branch |-> NoBranch,
         channel |-> 0, percentage |-> 0, seen |-> NoRollout]

Become(q, x) == req' = [req EXCEPT ![q] = x]

Init ==
    /\ branches = [n \in Names |-> [live |-> TRUE, id |-> 1, protected |-> FALSE]]
    /\ channel \in {[live |-> TRUE, id |-> 1, branch |-> b] : b \in {<<n, 1>> : n \in Names} \cup {NoBranch}}
    /\ rollout = NoRollout
    /\ lock = NoOne
    /\ req = [q \in Requests |-> Idle]

-----------------------------------------------------------------------------
(* Branches.                                                                 *)

\* InsertBranch, from CreateBranch or a publish: refused if the name is taken.
CreateBranch(n) ==
    /\ ~branches[n].live /\ branches[n].id < MaxIds
    /\ branches' = [branches EXCEPT ![n] = [live |-> TRUE, id |-> branches[n].id + 1,
                                            protected |-> FALSE]]
    /\ UNCHANGED <<channel, rollout, lock, req>>

\* SetBranchProtection.
SetBranchProtection(n, on) ==
    /\ branches[n].live /\ branches[n].protected # on
    /\ branches' = [branches EXCEPT ![n].protected = on]
    /\ UNCHANGED <<channel, rollout, lock, req>>

\* DeleteBranch: refused if a channel is mapped to the branch ...
DeleteBranch(q, n) ==
    /\ req[q].pc = "idle"
    /\ ~(channel.live /\ channel.branch = BranchId(n) /\ branches[n].live)
    /\ Become(q, [Idle EXCEPT !.pc = "rollouts", !.op = "delete", !.name = n])
    /\ UNCHANGED <<branches, channel, rollout, lock>>

\* ... or a rollout serves it.
CheckRollouts(q) ==
    /\ req[q].pc = "rollouts"
    /\ Become(q, IF rollout.on /\ Exists(rollout.branch) /\ rollout.branch[1] = req[q].name
                 THEN Idle ELSE [req[q] EXCEPT !.pc = "write"])
    /\ UNCHANGED <<branches, channel, rollout, lock>>

\* Mutant: channel_rollouts without its foreign key.
ReferencedByChannel(b) == channel.live /\ channel.branch = b

\* fk_channels_branch and fk_channel_rollouts_branch; a promotion that has not
\* committed holds the branch it repoints the channel to.
Referenced(b) ==
    \/ channel.live /\ channel.branch = b
    \/ rollout.on /\ rollout.branch = b
    \/ lock # NoOne /\ req[lock].branch = b

\* Mutant: protection is checked like the channels are, before the statement.
Unguarded(n) == branches[n].live

\* WHERE name = $1 AND NOT protected, on the last version of the row.
Deletable(n) == branches[n].live /\ ~branches[n].protected

\* DeleteBranchByName: matches no row, or is stopped by a foreign key, or deletes.
DeleteBranchByName(q) ==
    LET n == req[q].name IN
    /\ req[q].pc = "write" /\ req[q].op = "delete"
    /\ branches' = IF Deletable(n) /\ ~Referenced(BranchId(n))
                   THEN [branches EXCEPT ![n].live = FALSE, ![n].protected = FALSE]
                   ELSE branches
    /\ Become(q, Idle)
    /\ UNCHANGED <<channel, rollout, lock>>

-----------------------------------------------------------------------------
(* The channel and its mapping.                                              *)

\* CreateChannel reads the id of the branch it is given, if any, and inserts.
CreateChannel(q, b) ==
    /\ req[q].pc = "idle"
    /\ ~channel.live
    /\ b = NoBranch \/ Exists(b)
    /\ Become(q, [Idle EXCEPT !.pc = "write", !.op = "create", !.branch = b])
    /\ UNCHANGED <<branches, channel, rollout, lock>>

\* InsertChannel: the name is unique, the branch a foreign key.
InsertChannel(q) ==
    /\ req[q].pc = "write" /\ req[q].op = "create"
    /\ channel' = IF /\ ~channel.live /\ channel.id < MaxIds
                     /\ req[q].branch = NoBranch \/ Exists(req[q].branch)
                  THEN [live |-> TRUE, id |-> channel.id + 1, branch |-> req[q].branch]
                  ELSE channel
    /\ Become(q, Idle)
    /\ UNCHANGED <<branches, rollout, lock>>

\* DeleteChannelByName: the rollout goes with the channel (ON DELETE CASCADE).
DeleteChannel ==
    /\ channel.live /\ lock = NoOne
    /\ channel' = [channel EXCEPT !.live = FALSE, !.branch = NoBranch]
    /\ rollout' = [NoRollout EXCEPT !.id = rollout.id]
    /\ UNCHANGED <<branches, lock, req>>

\* The WHERE clause of UpdateChannelBranchMapping: the branch is the app's, and
\* the channel has no rollout.
MayMap(b) == channel.live /\ Exists(b) /\ ~rollout.on

\* UpdateChannelBranchMapping takes its snapshot; it names both by their ids.
MapChannel(q, b) ==
    /\ req[q].pc = "idle"
    /\ MayMap(b)
    /\ Become(q, [Idle EXCEPT !.pc = "write", !.op = "map", !.branch = b, !.channel = channel.id])
    /\ UNCHANGED <<branches, channel, rollout, lock>>

\* It waits for the row, and evaluates its condition again only with what its
\* snapshot saw of channel_rollouts; the branch is a foreign key.
UpdateChannelBranchMapping(q) ==
    /\ req[q].pc = "write" /\ req[q].op = "map"
    /\ lock = NoOne
    /\ channel' = IF channel.live /\ channel.id = req[q].channel /\ Exists(req[q].branch)
                  THEN [channel EXCEPT !.branch = req[q].branch] ELSE channel
    /\ Become(q, Idle)
    /\ UNCHANGED <<branches, rollout, lock>>

-----------------------------------------------------------------------------
(* Rollouts.                                                                 *)

\* The SELECT of InsertChannelRollout: a mapped channel, another branch.
MayStart(n) == /\ channel.live /\ channel.branch # NoBranch
               /\ branches[n].live /\ BranchId(n) # channel.branch

\* StartChannelRollout: InsertChannelRollout takes its snapshot.
StartChannelRollout(q, n, p) ==
    /\ req[q].pc = "idle"
    /\ MayStart(n)
    /\ Become(q, [Idle EXCEPT !.pc = "write", !.op = "start", !.branch = BranchId(n),
                              !.channel = channel.id, !.percentage = p])
    /\ UNCHANGED <<branches, channel, rollout, lock>>

\* The row is inserted: channel_id is unique, channel and branch are foreign keys.
\* The key-share lock that checks the channel does not wait for an update of it.
InsertChannelRollout(q) ==
    /\ req[q].pc = "write" /\ req[q].op = "start"
    /\ rollout' = IF /\ ~rollout.on /\ rollout.id < MaxIds
                     /\ channel.live /\ channel.id = req[q].channel /\ Exists(req[q].branch)
                  THEN [on |-> TRUE, id |-> rollout.id + 1, branch |-> req[q].branch,
                        percentage |-> req[q].percentage]
                  ELSE rollout
    /\ Become(q, Idle)
    /\ UNCHANGED <<branches, channel, lock>>

\* UpdateChannelRolloutPercentage: one statement, on the channel's rollout.
UpdateChannelRolloutPercentage(p) ==
    /\ rollout.on /\ p # rollout.percentage
    /\ rollout' = [rollout EXCEPT !.percentage = p]
    /\ UNCHANGED <<branches, channel, lock, req>>

\* EndChannelRollout, revert: DeleteChannelRollout.
RevertChannelRollout ==
    /\ rollout.on
    /\ rollout' = [NoRollout EXCEPT !.id = rollout.id]
    /\ UNCHANGED <<branches, channel, lock, req>>

\* EndChannelRollout, promote: RepointChannelToRolloutBranch takes its snapshot.
PromoteChannelRollout(q) ==
    /\ req[q].pc = "idle"
    /\ channel.live /\ rollout.on
    /\ Become(q, [Idle EXCEPT !.pc = "write", !.op = "promote", !.branch = rollout.branch,
                              !.channel = channel.id, !.seen = rollout])
    /\ UNCHANGED <<branches, channel, rollout, lock>>

\* It locks the channel row and repoints it to the branch its snapshot saw, inside
\* the transaction; or the channel, or the branch, is gone.
RepointChannel(q) ==
    /\ req[q].pc = "write" /\ req[q].op = "promote"
    /\ lock = NoOne
    /\ IF channel.live /\ channel.id = req[q].channel /\ Exists(req[q].branch)
       THEN lock' = q /\ Become(q, [req[q] EXCEPT !.pc = "commit"])
       ELSE lock' = lock /\ Become(q, Idle)
    /\ UNCHANGED <<branches, channel, rollout>>

\* DeleteChannelRollout, by the channel's name, and COMMIT; or the transaction fails.
CommitPromotion(q) ==
    /\ req[q].pc = "commit"
    /\ \/ /\ channel' = [channel EXCEPT !.branch = req[q].branch]
          /\ rollout' = [NoRollout EXCEPT !.id = rollout.id]
       \/ UNCHANGED <<channel, rollout>>
    /\ lock' = NoOne
    /\ Become(q, Idle)
    /\ UNCHANGED branches

Next ==
    \/ \E n \in Names : CreateBranch(n) \/ \E on \in BOOLEAN : SetBranchProtection(n, on)
    \/ DeleteChannel
    \/ \E p \in Percentages : UpdateChannelRolloutPercentage(p)
    \/ RevertChannelRollout
    \/ \E q \in Requests :
        \/ \E n \in Names : DeleteBranch(q, n)
        \/ CheckRollouts(q) \/ DeleteBranchByName(q)
        \/ \E b \in BranchIds \cup {NoBranch} : CreateChannel(q, b)
        \/ InsertChannel(q)
        \/ \E b \in BranchIds : MapChannel(q, b)
        \/ UpdateChannelBranchMapping(q)
        \/ \E n \in Names, p \in Percentages : StartChannelRollout(q, n, p)
        \/ InsertChannelRollout(q)
        \/ PromoteChannelRollout(q) \/ RepointChannel(q) \/ CommitPromotion(q)

Spec == Init /\ [][Next]_vars

-----------------------------------------------------------------------------
\* Every variable has its type, and the channel row is locked exactly while a
\* promotion is between its two statements.
TypeOK ==
    /\ \A n \in Names : branches[n].id \in 1..MaxIds
    /\ channel.branch \in BranchIds \cup {NoBranch} /\ channel.id \in 1..MaxIds
    /\ rollout.on => rollout.percentage \in 1..99 /\ rollout.id \in 1..MaxIds
    /\ \A q \in Requests : req[q].pc = "commit" <=> lock = q

\* What the manifest endpoint resolves a device to exists: no order of requests
\* deletes a branch the channel is mapped to or is rolling out to, though
\* DeleteBranch looks at both before it deletes.
ServedBranchesExist ==
    /\ channel.live => channel.branch = NoBranch \/ Exists(channel.branch)
    /\ rollout.on => channel.live /\ channel.branch # NoBranch /\ Exists(rollout.branch)

\* A protected branch is not deleted, even by a deletion that passed its checks
\* before the branch was protected.
ProtectedBranchesStay ==
    [][\A n \in Names : branches[n].live /\ branches[n].protected => branches'[n].live]_vars

\* The mapping is locked while the channel has a rollout: it changes only in the
\* step that ends the rollout, to the branch rolled out.
MappingLocked ==
    [][rollout.on /\ channel.live /\ channel'.live /\ channel'.branch # channel.branch
        => ~rollout'.on /\ channel'.branch = rollout.branch]_vars
=============================================================================
