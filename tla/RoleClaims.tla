------------------------------ MODULE RoleClaims ------------------------------
(***************************************************************************)
(* A clan's war role, which two workflows give and take: the pass of the   *)
(* clan's war (features/wars/roles.py) for whoever is in the lineup, and    *)
(* the rosters that carry the role (features/rosters/services) for whoever  *)
(* signed up.  Each asks the other before it takes the role.  The sign-ups  *)
(* are rows of a database, the lineup is a claim in memory that is saved    *)
(* with the war cache, and every question and every change waits.           *)
(***************************************************************************)
EXTENDS Naturals, FiniteSets

CONSTANTS
  Players,          \* members of the server
  Rosters,          \* open rosters that carry the role
  MaxLineups,       \* lineups that the war has one after the other
  MaxSignups,       \* sign-ups in all
  MaxRoleFaults     \* refusals of Discord, lost connections, failed reads and saves, restarts

\* No member is called like nobody.
ASSUME RolesAssumption == "nobody" \notin Players

VARIABLES
  holders,     \* who has the role
  signed,      \* roster_members of the active cycles: pairs of roster and member
  lineup,      \* war_role_lineups[clan]
  managed,     \* war_role_managed_members[clan]
  cached,      \* their copies in the war cache ...
  saved,       \* ... and in its file
  pass,        \* the pass that holds _war_role_locks[clan]
  task,        \* per roster, the operation that holds its lock
  adrift,      \* history: whose role no workflow will take: its removal failed or was never begun
  lineups, signups, roleFaults

roleVars == <<holders, signed, lineup, managed, cached, saved, pass, task, adrift,
              lineups, signups, roleFaults>>

NoPlayer    == "nobody"
NoPass      == [at |-> "rest", left |-> {}, managed |-> {}, member |-> NoPlayer, before |-> {}]
NoOperation == [at |-> "rest", left |-> {}, member |-> NoPlayer]
Claims      == [lineup |-> lineup, managed |-> managed]

RolesInit ==
  /\ holders = {} /\ signed = {} /\ lineup = {} /\ managed = {}
  /\ cached = Claims /\ saved = Claims
  /\ pass = NoPass /\ task = [r \in Rosters |-> NoOperation]
  /\ adrift = {} /\ lineups = 0 /\ signups = 0 /\ roleFaults = 0

RoleFault   == roleFaults < MaxRoleFaults /\ roleFaults' = roleFaults + 1
NoRoleFault == UNCHANGED roleFaults

\* A request of ours gives or takes the role, or has no effect.
Gives(m)    == holders' = holders \cup {m} /\ UNCHANGED adrift
Takes(m)    == holders' = holders \ {m} /\ adrift' = adrift \ {m}
NothingDone == UNCHANGED <<holders, adrift>>

role_has_signup(m) == \E r \in Rosters : <<r, m>> \in signed

\* Whom the pass of the war will ask about: while one goes on, those that it has not released.
Claimed      == IF pass.at \in {"rest", "save"} THEN managed ELSE pass.managed
Ownerless(m) == ~role_has_signup(m) /\ m \notin lineup \cup Claimed

-----------------------------------------------------------------------------
(* _sync_war_roles *)

PassVars == <<lineup, managed, cached, saved, pass, lineups>>
TaskVars == <<signed, task, signups>>

\* The claim is published before Discord is touched.  Who was in the lineup of a pass that broke
\* off is not managed yet, and is forgotten with that lineup.
BeginPass(players) ==
  /\ pass.at = "rest" /\ lineups < MaxLineups /\ lineups' = lineups + 1
  /\ lineup' = players
  /\ pass' = [at |-> "give", left |-> players, managed |-> managed \cup players,
              member |-> NoPlayer, before |-> lineup]
  /\ adrift' = (adrift \ players) \cup {m \in lineup \ (managed \cup players) : ~role_has_signup(m)}
  /\ NoRoleFault /\ UNCHANGED <<holders, managed, cached, saved>> /\ UNCHANGED TaskVars

Passes(at, next) == pass.at = at /\ pass' = next
PassGives        == UNCHANGED <<lineup, managed, cached, saved, lineups>> /\ UNCHANGED TaskVars

\* One after the other: who has the role is passed over.
GiveNext ==
  /\ pass.left # {} /\ \E m \in pass.left :
       Passes("give", IF m \in holders THEN [pass EXCEPT !.left = @ \ {m}]
                      ELSE [pass EXCEPT !.left = @ \ {m}, !.member = m, !.at = "giving"])
  /\ NoRoleFault /\ NothingDone /\ PassGives

WarGives ==
  /\ Passes("giving", [pass EXCEPT !.at = "give", !.member = NoPlayer])
  /\ \/ Gives(pass.member) /\ NoRoleFault
     \/ RoleFault /\ NothingDone
  /\ PassGives

AllGiven ==
  /\ pass.left = {}
  /\ Passes("give", [pass EXCEPT !.at = "take", !.left = pass.managed \ lineup])
  /\ NoRoleFault /\ NothingDone /\ PassGives

Released(m) == [pass EXCEPT !.left = @ \ {m}, !.managed = @ \ {m}, !.at = "take", !.member = NoPlayer]
Kept(m)     == [pass EXCEPT !.left = @ \ {m}, !.at = "take", !.member = NoPlayer]

\* _roster_needs_war_role: a read in a thread; one that fails decides nothing.
AskRosters ==
  /\ \E m \in pass.left :
       \/ Passes("take", IF role_has_signup(m) THEN Released(m)
                         ELSE [pass EXCEPT !.at = "asked", !.member = m]) /\ NoRoleFault
       \/ Passes("take", Kept(m)) /\ RoleFault
  /\ NothingDone /\ PassGives

\* Who cannot be fetched stays managed.
LookAtMember ==
  /\ \/ Passes("asked", IF pass.member \in holders THEN [pass EXCEPT !.at = "taking"]
                        ELSE Released(pass.member)) /\ NoRoleFault
     \/ Passes("asked", Kept(pass.member)) /\ RoleFault
  /\ NothingDone /\ PassGives

\* What is refused stays managed for the next pass.
WarTakes ==
  LET m == pass.member
  IN  \/ Passes("taking", Released(m)) /\ Takes(m) /\ NoRoleFault /\ PassGives
      \/ Passes("taking", Kept(m)) /\ RoleFault /\ NothingDone /\ PassGives

\* A connection that is lost ends the pass, done or not what was under way: only answers of
\* Discord are caught.  The lineup is published, and nobody new is managed.
PassBreaksOff ==
  /\ pass.at \in {"give", "giving", "asked", "taking"} /\ pass' = NoPass
  /\ \/ NothingDone
     \/ pass.at = "giving" /\ Gives(pass.member)
     \/ pass.at = "taking" /\ Takes(pass.member)
  /\ RoleFault /\ PassGives

\* What changed goes into the cache, and the cache to its file.
EndPass ==
  /\ pass.left = {} /\ managed' = pass.managed
  /\ LET changed == lineup # pass.before \/ pass.managed # managed
     IN  /\ Passes("take", IF changed THEN [NoPass EXCEPT !.at = "save"] ELSE NoPass)
         /\ cached' = IF changed THEN [lineup |-> lineup, managed |-> pass.managed] ELSE cached
  /\ NoRoleFault /\ UNCHANGED <<holders, lineup, saved, adrift, lineups>> /\ UNCHANGED TaskVars

SaveClaims ==
  /\ Passes("save", NoPass)
  /\ \/ saved' = cached /\ NoRoleFault
     \/ UNCHANGED saved /\ RoleFault
  /\ UNCHANGED <<holders, lineup, managed, cached, adrift, lineups>> /\ UNCHANGED TaskVars

-----------------------------------------------------------------------------
(* membership.py, automation.py and roles.py *)

Operates(r, from, next) == task[r].at = from /\ task' = [task EXCEPT ![r] = next]
RosterWorks             == UNCHANGED <<signed, signups>> /\ UNCHANGED PassVars

\* add_members; the role follows while the roster's lock is held.
SignUp(r, m) ==
  /\ <<r, m>> \notin signed /\ signups < MaxSignups
  /\ Operates(r, "rest", [at |-> "signed", left |-> {}, member |-> m])
  /\ signed' = signed \cup {<<r, m>>} /\ signups' = signups + 1
  /\ adrift' = adrift \ {m}
  /\ NoRoleFault /\ UNCHANGED holders /\ UNCHANGED PassVars

GiveSignedUp(r) ==
  /\ Operates(r, "signed", IF task[r].member \in holders THEN NoOperation ELSE [task[r] EXCEPT !.at = "giving"])
  /\ NoRoleFault /\ NothingDone /\ RosterWorks

\* The sign-up may have been dropped by a new cycle since.
GivesSignedUp(m) == holders' = holders \cup {m} /\ adrift' = adrift \cup {p \in {m} : Ownerless(p)}

RosterGives(r) ==
  /\ Operates(r, "giving", NoOperation)
  /\ \/ GivesSignedUp(task[r].member) /\ NoRoleFault
     \/ RoleFault /\ NothingDone
  /\ RosterWorks

\* Members leave, and their roles are seen to: one opts out, several are removed or cleared, or
\* the scheduled opening of a roster that is reset drops all.
LeaveRoster(r, players) ==
  /\ players # {} /\ \A m \in players : <<r, m>> \in signed
  /\ Operates(r, "rest", [at |-> "left", left |-> players, member |-> NoPlayer])
  /\ signed' = signed \ ({r} \X players)
  /\ NoRoleFault /\ UNCHANGED <<holders, adrift, signups>> /\ UNCHANGED PassVars

NextLeaver(r) == IF task[r].left = {} THEN NoOperation ELSE [task[r] EXCEPT !.at = "left", !.member = NoPlayer]
Done(r, m)    == IF task[r].left \ {m} = {} THEN NoOperation
                 ELSE [at |-> "left", left |-> task[r].left \ {m}, member |-> NoPlayer]

role_still_needed(r, m) == \E other \in Rosters \ {r} : <<other, m>> \in signed

\* A new cycle begins without the roster's lock when somebody opens the roster or posts it, and
\* its sign-ups are gone, their roles left alone.  (So it does, under the lock, where a scheduled
\* opening keeps the members: SignUp follows for each.)
StartCycle(r) ==
  LET members == {m \in Players : <<r, m>> \in signed}
  IN  /\ members # {} /\ signed' = signed \ ({r} \X members)
      /\ adrift' = adrift \cup {m \in members : ~role_still_needed(r, m) /\ m \notin lineup \cup Claimed}
  /\ NoRoleFault /\ UNCHANGED <<holders, task, signups>> /\ UNCHANGED PassVars

\* Nobody sees to the roles of these any more.
LeavesRole(players) == adrift' = adrift \cup {m \in players \cap holders : Ownerless(m)}

\* Who has the role is looked up in the other rosters; a read that fails ends the operation.
AskOtherRosters(r) ==
  \/ /\ \E m \in task[r].left :
          Operates(r, "left", IF m \notin holders \/ role_still_needed(r, m) THEN Done(r, m)
                          ELSE [at |-> "asked", left |-> task[r].left \ {m}, member |-> m])
     /\ NoRoleFault /\ NothingDone /\ RosterWorks
  \/ /\ Operates(r, "left", NoOperation)
     /\ RoleFault /\ LeavesRole(task[r].left) /\ UNCHANGED holders /\ RosterWorks

\* Mutant: a member whom the war still manages is taken for one in the lineup.
war_manages_role(m)      == m \in lineup \cup managed
\* war_lineup_needs_role; the request to Discord goes out at once.
war_lineup_needs_role(m) == m \in lineup

AskWar(r) ==
  /\ Operates(r, "asked", IF war_lineup_needs_role(task[r].member) THEN NextLeaver(r)
                      ELSE [task[r] EXCEPT !.at = "taking"])
  /\ NoRoleFault /\ NothingDone /\ RosterWorks

\* A removal that Discord refuses is not tried again.
RosterTakes(r) ==
  /\ Operates(r, "taking", NextLeaver(r))
  /\ \/ Takes(task[r].member) /\ NoRoleFault
     \/ RoleFault /\ LeavesRole({task[r].member}) /\ UNCHANGED holders
  /\ RosterWorks

\* A connection that is lost ends the operation, and those who were still to be asked about
\* keep the role.
RosterBreaksOff(r) ==
  /\ \/ Operates(r, "giving", NoOperation) /\ (NothingDone \/ GivesSignedUp(task[r].member))
     \/ /\ Operates(r, "taking", NoOperation)
        /\ \/ LeavesRole(task[r].left \cup {task[r].member}) /\ UNCHANGED holders
           \/ /\ holders' = holders \ {task[r].member}
              /\ adrift' = (adrift \ {task[r].member}) \cup
                           {m \in (task[r].left \ {task[r].member}) \cap holders : Ownerless(m)}
  /\ RoleFault /\ RosterWorks

-----------------------------------------------------------------------------
\* The process ends, with a request that was under way done or not, and the file is loaded.
RestartRoles ==
  /\ RoleFault
  /\ LET given == (IF pass.at = "giving" THEN {pass.member} ELSE {}) \cup
                  {task[r].member : r \in {x \in Rosters : task[x].at = "giving"}}
         taken == (IF pass.at = "taking" THEN {pass.member} ELSE {}) \cup
                  {task[r].member : r \in {x \in Rosters : task[x].at = "taking"}}
     IN  \E g \in SUBSET given, t \in SUBSET taken : holders' = (holders \cup g) \ t
  /\ lineup' = saved.lineup /\ managed' = saved.managed /\ cached' = saved
  /\ adrift' = {m \in holders' : ~role_has_signup(m) /\ m \notin saved.lineup \cup saved.managed}
  /\ pass' = NoPass /\ task' = [r \in Rosters |-> NoOperation]
  /\ UNCHANGED <<signed, saved, lineups, signups>>

\* The war cache is saved for other reasons too.
SaveCache == saved' = cached /\ NoRoleFault /\ UNCHANGED <<holders, lineup, managed, cached, pass, adrift, lineups>>
               /\ UNCHANGED TaskVars

RolesNext ==
  \/ \E players \in SUBSET Players : BeginPass(players)
  \/ GiveNext \/ WarGives \/ AllGiven \/ AskRosters \/ LookAtMember \/ WarTakes \/ PassBreaksOff
  \/ EndPass \/ SaveClaims
  \/ \E r \in Rosters, m \in Players : SignUp(r, m)
  \/ \E r \in Rosters, players \in SUBSET Players : LeaveRoster(r, players)
  \/ \E r \in Rosters :
       \/ StartCycle(r) \/ GiveSignedUp(r) \/ RosterGives(r)
       \/ AskOtherRosters(r) \/ AskWar(r) \/ RosterTakes(r) \/ RosterBreaksOff(r)
  \/ RestartRoles \/ SaveCache

RolesSpec == RolesInit /\ [][RolesNext]_roleVars

-----------------------------------------------------------------------------
(* Properties *)

RolesTypeOK ==
  /\ holders \subseteq Players /\ signed \subseteq Rosters \X Players /\ adrift \subseteq Players
  /\ {lineup, managed, cached.lineup, cached.managed, saved.lineup, saved.managed} \subseteq SUBSET Players
  /\ pass.managed \subseteq managed \cup lineup /\ (pass.at \in {"giving", "asked", "taking"} <=> pass.member \in Players)
  /\ \A r \in Rosters : task[r].at \in {"signed", "giving", "asked", "taking"} <=> task[r].member \in Players

\* Nobody keeps the role without a reason: whoever has it is signed up, in the lineup or still
\* claimed by the war, or is just being asked about by a roster.  However sign-ups, opt-outs of
\* several rosters and lineups meet, the workflows do not leave a member to each other.  Excepted
\* (adrift) are those whose removal failed, those whom a cycle that somebody opened or posted
\* dropped from their last roster, and the lineup of a pass that broke off before it was managed.
RoleHasAnOwner ==
  \A m \in holders \ adrift :
    \/ role_has_signup(m)
    \/ m \in lineup \cup Claimed
    \/ \E r \in Rosters : /\ task[r].at \in {"left", "asked", "taking"}
                          /\ m \in task[r].left \cup {task[r].member}

\* "War and roster cleanup must keep a shared role while either workflow still requires it"
\* (docs/developers/architecture.md): when both are at rest and nothing failed, whoever is
\* signed up or in the lineup has the role.
NeededRoleIsKept ==
  roleFaults = 0 /\ pass = NoPass /\ (\A r \in Rosters : task[r] = NoOperation)
    => \A m \in Players : role_has_signup(m) \/ m \in lineup => m \in holders
=============================================================================
