----------------------------- MODULE AircraftWar -----------------------------
(***************************************************************************)
(* The game of Android_AircraftWar: the loop of GameView over its lists of *)
(* enemies and rewards, with the thread that a BulletReward starts.        *)
(*                                                                         *)
(* Where things are on the screen is left open, so which of them meet in a *)
(* frame is a choice; so is when a period of shooting, of a new enemy or   *)
(* of a level ends, which takes many frames.  Enemies and rewards of one   *)
(* kind differ in nothing, so the lists are bags: functions that say how   *)
(* many there are.                                                         *)
(***************************************************************************)
EXTENDS Integers, FiniteSets, FiniteSetsExt, BagsExt

CONSTANTS
    HeroHp,         \* of the hero at the start, and bound of what is added
    BossHp,         \* bullets or bombs that a boss takes
    PropMaxNumber,
    FirstMax,       \* enemyMaxNumber at the start
    Modes,          \* which of EasyGame, MediumGame and HardGame are played
    Threshold,      \* bossThreshold at the start, in MediumGame and HardGame
    LeastThreshold, \* and in MediumGame at the end
    MaxEnemies,     \* bound of enemyMaxNumber
    MaxScore        \* bound of the score

ASSUME AircraftWarAssumption ==
    /\ {HeroHp, BossHp, FirstMax} \subseteq Nat \ {0}
    /\ {PropMaxNumber, MaxEnemies, MaxScore} \subseteq Nat
    /\ Modes \subseteq {"easy", "medium", "hard"}
    /\ LeastThreshold \in Nat \ {0} /\ Threshold \in Nat \ 0..(LeastThreshold - 1)

VARIABLES
    mode,
    phase,          \* what the loop does next in this frame
    hero,           \* hp and isValid
    enemyAircrafts, enemyMaxNumber,
    leftRewards,
    score,
    cntBoss, recordOfBoss, bossLimit, bossThreshold,
    strategy,       \* how the hero shoots
    reward_thread,  \* BulletReward.t
    validTime,
    lostBosses      \* history: bosses that were counted and never came, or went
                    \* without a bullet of the hero

skyVars == <<hero, enemyAircrafts, leftRewards, score>>
bossVars == <<mode, cntBoss, recordOfBoss, bossLimit, bossThreshold, lostBosses, enemyMaxNumber>>
rewardVars == <<strategy, reward_thread, validTime>>
aircraftVars == <<phase, skyVars, bossVars, rewardVars>>

Enemies == [kind : {"mob", "elite", "boss"}, hp : 0..BossHp, valid : BOOLEAN]
Rewards == [kind : {"blood", "bomb", "bullet"}, valid : BOOLEAN]

Enemy(kind) == [kind |-> kind, hp |-> IF kind = "boss" THEN BossHp ELSE 1, valid |-> TRUE]
Listed(bag) == DOMAIN bag
Valid(bag) == {x \in Listed(bag) : x.valid}
Vanished(x) == [x EXCEPT !.valid = FALSE]
Becomes(bag, x, y) == BagAdd(BagRemove(bag, x), y)

\* The things in the list, apart from each other, and how many they are.
Copies(bag) == UNION {{x} \X (1..bag[x]) : x \in Listed(bag)}
Size(bag) == Cardinality(Copies(bag))

IsBoss(x) == x.kind = "boss" /\ x.valid
Bosses(bag) == Cardinality({c \in Copies(bag) : IsBoss(c[1])})

\* removeIf(notValid).
Kept(bag) == [x \in Valid(bag) |-> bag[x]]

\* decreaseHp.
Decreased(x, n) ==
    [x EXCEPT !.hp = IF @ > n THEN @ - n ELSE 0, !.valid = @ /\ x.hp > n]

\* initArgs.
BossLimitOf(game) == IF game = "easy" THEN 0 ELSE 1

AircraftInit ==
    /\ mode \in Modes
    /\ phase = "load"
    /\ hero = [hp |-> HeroHp, valid |-> TRUE]
    /\ enemyAircrafts = <<>> /\ leftRewards = <<>>
    /\ enemyMaxNumber = FirstMax
    /\ score = 0
    /\ cntBoss = 0 /\ recordOfBoss = 0 /\ lostBosses = 0
    /\ bossLimit = BossLimitOf(mode)
    /\ bossThreshold = Threshold
    /\ strategy = "straight" /\ reward_thread = "none" /\ validTime = 0

-----------------------------------------------------------------------------
(***************************************************************************)
(* One frame.                                                              *)
(***************************************************************************)

\* isBoss, which EasyGame does not ask.
BossIsDue == cntBoss < bossLimit /\ score \div bossThreshold > recordOfBoss

Joined(bag, kind) ==
    IF Size(bag) < enemyMaxNumber THEN BagAdd(bag, Enemy(kind)) ELSE bag

\* loadAirCrafts: perhaps a new mob or elite enemy, and a boss that is due.  A
\* boss that finds no room is counted all the same.
LoadAirCrafts ==
    /\ phase = "load"
    /\ \E more \in {enemyAircrafts, Joined(enemyAircrafts, "mob"), Joined(enemyAircrafts, "elite")} :
        IF BossIsDue
        THEN /\ enemyAircrafts' = Joined(more, "boss")
             /\ recordOfBoss' = score \div bossThreshold
             /\ cntBoss' = cntBoss + 1
             /\ lostBosses' = lostBosses + IF enemyAircrafts' = more THEN 1 ELSE 0
        ELSE enemyAircrafts' = more /\ UNCHANGED <<recordOfBoss, cntBoss, lostBosses>>
    /\ phase' = "shoot"
    /\ UNCHANGED <<mode, hero, leftRewards, score, bossLimit, bossThreshold, enemyMaxNumber,
                   rewardVars>>

\* loadBullets: an aircraft that is not valid answers null, which addAll does not
\* take; nobody catches the exception, which ends the program.
LoadBullets ==
    /\ phase = "shoot"
    /\ phase' = "move"
    /\ UNCHANGED <<skyVars, bossVars, rewardVars>>

ShootsNothing ==
    /\ phase = "shoot"
    /\ ~hero.valid \/ \E e \in Listed(enemyAircrafts) : ~e.valid /\ e.kind # "mob"
    /\ phase' = "crashed"
    /\ UNCHANGED <<skyVars, bossVars, rewardVars>>

\* An enemy or a reward leaves the screen; a boss does not.
FliesOff ==
    /\ phase = "move"
    /\ \/ \E e \in Valid(enemyAircrafts) :
            /\ e.kind # "boss"
            /\ enemyAircrafts' = Becomes(enemyAircrafts, e, Vanished(e))
            /\ UNCHANGED leftRewards
       \/ \E r \in Valid(leftRewards) :
            /\ leftRewards' = Becomes(leftRewards, r, Vanished(r))
            /\ UNCHANGED enemyAircrafts
    /\ UNCHANGED <<phase, hero, score, bossVars, rewardVars>>

\* crashCheckAction, first: a bullet of an enemy.
HeroIsHit ==
    /\ phase = "hits"
    /\ hero' = Decreased(hero, 1)
    /\ UNCHANGED <<phase, enemyAircrafts, leftRewards, score, bossVars, rewardVars>>

Rammed(e, bumps) == IF bumps THEN Vanished(e) ELSE e

\* Mutant: a boss that is shot down is not counted off.
UncountedDown(e) == 0

\* Bosses that go when e is shot down.
CountedDown(e) == IF e.kind = "boss" THEN 1 ELSE 0

\* Second: an enemy meets a bullet of the hero, or the hero itself, or both.
\* An elite enemy that is shot down counts twice and leaves a reward.
EnemyIsHit(e, shot, bumps) ==
    /\ phase = "shots"
    /\ e \in Valid(enemyAircrafts)
    /\ LET down == IF shot THEN Decreased(e, 1) ELSE e
           killed == ~down.valid
           points == IF ~killed THEN 0 ELSE IF e.kind = "elite" THEN 2 ELSE 1
       IN  /\ score + points <= MaxScore
           /\ score' = score + points
           /\ enemyAircrafts' = Becomes(enemyAircrafts, e, Rammed(down, bumps))
           /\ cntBoss' = IF killed THEN cntBoss - CountedDown(e) ELSE cntBoss
           /\ lostBosses' = lostBosses + IF bumps /\ ~killed /\ e.kind = "boss" THEN 1 ELSE 0
           /\ IF killed /\ e.kind = "elite" /\ Size(leftRewards) < PropMaxNumber
              THEN \E kind \in {"blood", "bomb", "bullet"} :
                       leftRewards' = BagAdd(leftRewards, [kind |-> kind, valid |-> TRUE])
              ELSE UNCHANGED leftRewards
    /\ hero' = IF bumps THEN [hp |-> 0, valid |-> FALSE] ELSE hero
    /\ UNCHANGED <<mode, phase, recordOfBoss, bossLimit, bossThreshold, enemyMaxNumber, rewardVars>>

\* Third: the hero takes a reward, whether it is still valid or not.
Takes(kind) ==
    /\ phase = "rewards"
    /\ [kind |-> kind, valid |-> TRUE] \in Listed(leftRewards)
    /\ leftRewards' = Becomes(leftRewards, [kind |-> kind, valid |-> TRUE],
                                           [kind |-> kind, valid |-> FALSE])

\* addHp; a hero that is not valid stays so.
Refreshed == [hero EXCEPT !.hp = IF @ < HeroHp THEN @ + 1 ELSE @]

BloodReward ==
    /\ Takes("blood")
    /\ hero' = Refreshed
    /\ UNCHANGED <<phase, enemyAircrafts, score, bossVars, rewardVars>>

\* Every mob and elite enemy vanishes, a boss is weakened.
Bombed(e) == IF e.kind = "boss" THEN Decreased(e, 1) ELSE Vanished(e)

AllBombed(bag) ==
    [x \in {Bombed(e) : e \in Listed(bag)} |->
        Cardinality({c \in Copies(bag) : Bombed(c[1]) = x})]

BombReward ==
    /\ Takes("bomb")
    /\ enemyAircrafts' = AllBombed(enemyAircrafts)
    /\ lostBosses' = lostBosses + Bosses(enemyAircrafts) - Bosses(enemyAircrafts')
    /\ UNCHANGED <<mode, phase, hero, score, cntBoss, recordOfBoss, bossLimit, bossThreshold,
                   enemyMaxNumber, rewardVars>>

\* Mutant: a thread is started whether or not one is alive.
AnyAlive == FALSE

\* t != null && t.isAlive().
Alive == reward_thread # "none"

\* While a thread is alive, a reward is taken for nothing.
BulletReward ==
    /\ Takes("bullet")
    /\ IF Alive THEN UNCHANGED <<reward_thread, validTime>>
       ELSE reward_thread' = "started" /\ validTime' = validTime + 1
    /\ UNCHANGED <<phase, hero, enemyAircrafts, score, bossVars, strategy>>

\* The loop goes on to its next part.
PartEnds(from, to) ==
    /\ phase = from
    /\ phase' = to
    /\ UNCHANGED <<skyVars, bossVars, rewardVars>>

NextPart == PartEnds("move", "hits") \/ PartEnds("hits", "shots") \/ PartEnds("shots", "rewards")

\* levelUp, which does nothing in EasyGame.
LevelUp ==
    /\ mode # "easy"
    /\ enemyMaxNumber < MaxEnemies
    /\ enemyMaxNumber' = enemyMaxNumber + 1
    /\ IF mode = "hard"
       THEN bossLimit' = 2 /\ hero' = Refreshed /\ UNCHANGED bossThreshold
       ELSE /\ bossThreshold' = Max({bossThreshold - 1, LeastThreshold})
            /\ UNCHANGED <<bossLimit, hero>>

\* postProcessAction, isEnd, and levelUp if the level has ended.  The activity
\* may be left at any time, which ends the loop as well.
EndOfFrame ==
    /\ phase = "rewards"
    /\ enemyAircrafts' = Kept(enemyAircrafts)
    /\ leftRewards' = Kept(leftRewards)
    /\ phase' \in IF hero.hp = 0 THEN {"over"} ELSE {"load", "over"}
    /\ LevelUp \/ UNCHANGED <<enemyMaxNumber, bossLimit, bossThreshold, hero>>
    /\ UNCHANGED <<mode, score, cntBoss, recordOfBoss, lostBosses, rewardVars>>

\* The player goes back to the login and on to another game, with a GameView of
\* its own; the hero, the score and the thread of the reward are static.
AnotherGame ==
    /\ phase = "over"
    /\ phase' = "load"
    /\ mode' \in Modes
    /\ enemyAircrafts' = <<>> /\ leftRewards' = <<>>
    /\ enemyMaxNumber' = FirstMax
    /\ cntBoss' = 0 /\ recordOfBoss' = 0 /\ lostBosses' = 0
    /\ bossLimit' = BossLimitOf(mode')
    /\ bossThreshold' = Threshold
    /\ UNCHANGED <<hero, score, rewardVars>>

-----------------------------------------------------------------------------
(***************************************************************************)
(* The thread of a BulletReward.                                           *)
(***************************************************************************)

Scatters ==
    /\ reward_thread = "started"
    /\ strategy' = "scattered"
    /\ reward_thread' = "asleep"
    /\ UNCHANGED <<phase, skyVars, bossVars, validTime>>

WakesUp ==
    /\ reward_thread = "asleep"
    /\ strategy' = "straight"
    /\ reward_thread' = "ending"
    /\ UNCHANGED <<phase, skyVars, bossVars, validTime>>

Ends ==
    /\ reward_thread = "ending"
    /\ validTime' = 0
    /\ reward_thread' = "none"
    /\ UNCHANGED <<phase, skyVars, bossVars, strategy>>

RewardThread == phase # "crashed" /\ (Scatters \/ WakesUp \/ Ends)

-----------------------------------------------------------------------------

AircraftNext ==
    \/ LoadAirCrafts \/ LoadBullets \/ ShootsNothing
    \/ FliesOff \/ HeroIsHit
    \/ \E e \in Enemies, shot, bumps \in BOOLEAN : (shot \/ bumps) /\ EnemyIsHit(e, shot, bumps)
    \/ BloodReward \/ BombReward \/ BulletReward
    \/ NextPart \/ EndOfFrame \/ AnotherGame
    \/ RewardThread

AircraftFairness == WF_aircraftVars(RewardThread)

AircraftSpec == AircraftInit /\ [][AircraftNext]_aircraftVars /\ AircraftFairness

-----------------------------------------------------------------------------
(***************************************************************************)
(* Properties.                                                             *)
(***************************************************************************)

AircraftTypeOK ==
    /\ phase \in {"load", "shoot", "move", "hits", "shots", "rewards", "over", "crashed"}
    /\ hero \in [hp : 0..HeroHp, valid : BOOLEAN]
    /\ Listed(enemyAircrafts) \subseteq Enemies /\ Size(enemyAircrafts) <= enemyMaxNumber
    /\ Listed(leftRewards) \subseteq Rewards /\ Size(leftRewards) <= PropMaxNumber
    /\ score \in 0..MaxScore
    /\ strategy \in {"straight", "scattered"}
    /\ reward_thread \in {"none", "started", "asleep", "ending"}

\* cntBoss is the number of bosses on the screen and of those that were lost - a
\* boss that found no room, that a bomb destroyed or that the hero rammed -, so
\* that each of these keeps out a later boss for ever; and the bosses are never
\* more than a level allows (GameView.java:342, 351, 418), whatever the hero and
\* the rewards do to them in one frame.
BossesCounted ==
    /\ AircraftTypeOK
    /\ cntBoss = Bosses(enemyAircrafts) + lostBosses
    /\ cntBoss <= bossLimit

\* The hero shoots scattered only while a reward works, for the time of one
\* reward, and shoots straight again unless the program ends, however many rewards
\* it takes before, during and just after that, in this game or the next
\* (BulletReward.java:11-29).
RewardWearsOff ==
    /\ [](strategy = "scattered" => reward_thread = "asleep" /\ validTime = 1)
    /\ strategy = "scattered" ~> strategy = "straight" \/ phase = "crashed"

=============================================================================
