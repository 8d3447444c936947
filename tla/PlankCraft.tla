----------------------------- MODULE PlankCraft -----------------------------
(***************************************************************************)
(* The controller that turns a log into planks (control/crafting.py): open *)
(* the inventory, read what is in it, click on the recipe, read again, and *)
(* close.  The same key opens and closes; a key or a click may be refused; *)
(* frames are read late, by a fast look at each of them and by a slow one  *)
(* that counts; and the inventory closes by itself when the player dies.   *)
(*                                                                         *)
(* The clock is kept as far as the controller asks for it: whether a frame *)
(* was captured after it pressed the key, and after it clicked.  That it   *)
(* waited too long may be found at any time, and so may a slow look that   *)
(* showed nothing.                                                         *)
(***************************************************************************)
EXTENDS Naturals

CONSTANTS
    MaxHeld,       \* bound: logs in the inventory
    MaxClicks      \* bound: clicks of a run that is begun anew by a nested one

ASSUME CraftAssumption == MaxHeld \in Nat /\ MaxClicks \in Nat

VARIABLES
    craft,     \* the phase, whether the key was pressed in it, the logs before
    closer,    \* the skill that closes an inventory: alone or nested in the craft
    key,       \* what was decided and not yet sent
    game,      \* the inventory: open, the logs, whether planks are in it
    glance,    \* the last fast look, unless it is older than the phase asks
    scan,      \* the slow look under way
    facts,     \* the last that ended
    crafted,   \* history: a click of this run made planks
    clicks,    \* history: the clicks of this run
    startled,  \* history: the inventory closed by itself in this run
    nesting    \* whether cognition nests the closing in the craft

craftVars == <<craft, closer, key, game, glance, scan, facts, crafted, clicks, startled, nesting>>

Nothing == [at |-> "never", logs |-> 0, planks |-> FALSE]
Idle0 == [phase |-> "none", toggled |-> FALSE, baseline |-> 0]
OpenInventory == [Idle0 EXCEPT !.phase = "open"]

CraftInit ==
    /\ craft = Idle0 /\ closer = "none" /\ key = "none"
    /\ game \in [open : BOOLEAN, logs : {MaxHeld}, planks : BOOLEAN]
    /\ glance = "none"
    /\ scan = Nothing /\ facts = Nothing
    /\ crafted = FALSE /\ clicks = 0 /\ startled = FALSE
    /\ nesting \in BOOLEAN

Crafting == craft.phase \in {"open", "locate", "verify", "close"}
Ticks(phase) == craft.phase = phase /\ closer = "none" /\ key = "none"
Told == UNCHANGED <<crafted, clicks, startled, nesting>>
Old(look) == IF look.at = "never" THEN look ELSE [look EXCEPT !.at = "before"]

-----------------------------------------------------------------------------
\* SkillExecutor.start: the controller is reset.
StartCraft ==
    /\ ~Crafting /\ closer = "none" /\ key = "none"
    /\ craft' = OpenInventory
    /\ crafted' = FALSE /\ clicks' = 0 /\ startled' = FALSE
    /\ UNCHANGED <<closer, key, game, glance, scan, facts, nesting>>

\* _fail, on a timeout or on a look that showed too little; or the run is cancelled.
Fail ==
    /\ Crafting /\ closer = "none" /\ key = "none"
    /\ craft' = [craft EXCEPT !.phase = "failed"]
    /\ UNCHANGED <<closer, key, game, glance, scan, facts>> /\ Told

\* _open_inventory: the key is pressed once, and what was seen before is old.
PressOpen ==
    /\ Ticks("open") /\ ~craft.toggled
    /\ craft' = [craft EXCEPT !.toggled = TRUE] /\ key' = "toggle"
    /\ glance' = "none"
    /\ scan' = Old(scan) /\ facts' = Old(facts)
    /\ UNCHANGED <<closer, game>> /\ Told

SeesOverlay ==
    /\ Ticks("open") /\ craft.toggled /\ glance = "inventory"
    /\ craft' = [craft EXCEPT !.phase = "locate"]
    /\ UNCHANGED <<closer, key, game, glance, scan, facts>> /\ Told

-----------------------------------------------------------------------------
(***************************************************************************)
(* _locate_recipe: on a slow look at the inventory that was captured after *)
(* the key was pressed, the logs are counted, once, and the recipe is      *)
(* clicked where it was seen.                                              *)
(***************************************************************************)
\* Slip: any look will do.
ShowsAny(look) == look # Nothing

Shows(look) == look.at = "opened"

Baseline == IF craft.baseline = 0 THEN facts.logs ELSE craft.baseline

ReadLogs ==
    /\ Ticks("locate") /\ Shows(facts) /\ craft.baseline = 0 /\ facts.logs > 0
    /\ craft' = [craft EXCEPT !.baseline = facts.logs]
    /\ UNCHANGED <<closer, key, game, glance, scan, facts>> /\ Told

ClickRecipe ==
    /\ clicks < MaxClicks
    /\ Ticks("locate") /\ Shows(facts) /\ Baseline > 0 /\ facts.logs > 0
    /\ craft' = [craft EXCEPT !.phase = "verify", !.baseline = Baseline]
    /\ key' = "click" /\ clicks' = clicks + 1
    /\ UNCHANGED <<closer, game, glance, scan, facts, crafted, startled, nesting>>

\* _verify_output, _verified_inventory_delta: fewer logs and some planks in a look
\* that was captured after the click; then the key is pressed again at once.
Delta(look) == look.at = "clicked" /\ look.logs < craft.baseline /\ look.planks

VerifyOutput ==
    /\ Ticks("verify") /\ Delta(facts)
    /\ craft' = [craft EXCEPT !.phase = "close"] /\ key' = "toggle"
    /\ glance' = "none"
    /\ UNCHANGED <<closer, game, scan, facts>> /\ Told

\* _close_inventory
SeesWorld ==
    /\ Ticks("close") /\ glance = "world"
    /\ craft' = [craft EXCEPT !.phase = "complete"]
    /\ UNCHANGED <<closer, key, game, glance, scan, facts>> /\ Told

-----------------------------------------------------------------------------
(***************************************************************************)
(* close_open_inventory: the recovery of a craft that failed, or an option *)
(* that cognition nests in the craft.  Its start resets the controller,    *)
(* which both of them share.                                               *)
(***************************************************************************)
StartClosing ==
    /\ closer = "none" /\ key = "none" /\ glance = "inventory"
    /\ closer' = "started"
    /\ \/ ~Crafting /\ UNCHANGED craft
       \/ Crafting /\ nesting /\ craft' = OpenInventory
    /\ UNCHANGED <<key, game, glance, scan, facts>> /\ Told

\* _tick_inventory_close
PressClose ==
    /\ closer = "started" /\ key = "none"
    /\ closer' = "pressed" /\ key' = "toggle"
    /\ UNCHANGED <<craft, game, glance, scan, facts>> /\ Told

ClosingEnds ==
    /\ closer # "none" /\ key = "none"
    /\ closer' = "none"
    /\ UNCHANGED <<craft, key, game, glance, scan, facts>> /\ Told

-----------------------------------------------------------------------------
\* _send_motor: the action goes out, or is dropped; whoever decided is not told.
Crafts == game.open /\ game.logs > 0

InputSent ==
    /\ key # "none" /\ key' = "none"
    /\ CASE key = "toggle" -> /\ game' = [game EXCEPT !.open = ~@]
                              /\ UNCHANGED crafted
         [] key = "click" /\ Crafts -> /\ game' = [game EXCEPT !.logs = @ - 1, !.planks = TRUE]
                                       /\ crafted' = TRUE
         [] OTHER -> /\ \/ UNCHANGED game
                        \/ ~game.open /\ game.logs > 0 /\ game' = [game EXCEPT !.logs = @ - 1]
                     /\ UNCHANGED crafted
    /\ UNCHANGED <<craft, closer, glance, scan, facts, clicks, startled, nesting>>

InputRefused ==
    /\ key # "none" /\ key' = "none"
    /\ UNCHANGED <<craft, closer, game, glance, scan, facts>> /\ Told

\* Each frame is looked at; some that show the inventory are read.  What is known may
\* be too old to be of use at any time, which is to wait.
Glance ==
    /\ glance' = IF game.open THEN "inventory" ELSE "world"
    /\ UNCHANGED <<craft, closer, key, game, scan, facts>> /\ Told

ScanBegins ==
    /\ scan = Nothing /\ Crafting /\ game.open
    /\ scan' = [at |-> IF craft.phase = "verify" THEN "clicked" ELSE "opened",
                logs |-> game.logs, planks |-> game.planks]
    /\ UNCHANGED <<craft, closer, key, game, glance, facts>> /\ Told

ScanEnds ==
    /\ scan # Nothing /\ scan' = Nothing
    /\ facts' \in {scan, facts}
    /\ UNCHANGED <<craft, closer, key, game, glance>> /\ Told

\* A drop is picked up at any time; between two crafts anything happens; and the
\* player dies.
Meanwhile ==
    /\ \/ /\ game.logs < MaxHeld /\ game' = [game EXCEPT !.logs = @ + 1]
          /\ UNCHANGED startled
       \/ /\ ~Crafting /\ ~game.open
          /\ game' \in [open : {FALSE}, logs : 0 .. MaxHeld, planks : BOOLEAN]
          /\ UNCHANGED startled
       \/ /\ game.open /\ startled' = TRUE
          /\ game' \in {[game EXCEPT !.open = FALSE],
                        [open |-> FALSE, logs |-> 0, planks |-> FALSE]}
    /\ UNCHANGED <<craft, closer, key, glance, scan, facts, crafted, clicks, nesting>>

CraftNext ==
    \/ StartCraft \/ Fail \/ PressOpen \/ SeesOverlay \/ ReadLogs \/ ClickRecipe
    \/ VerifyOutput \/ SeesWorld
    \/ StartClosing \/ PressClose \/ ClosingEnds
    \/ InputSent \/ InputRefused \/ Glance \/ ScanBegins \/ ScanEnds \/ Meanwhile

CraftSpec == CraftInit /\ [][CraftNext]_craftVars

-----------------------------------------------------------------------------
(***************************************************************************)
(* A craft that is reported as done was made: one log became planks by a   *)
(* click of this run, which clicked but once, and the inventory is closed  *)
(* again.  Keys and clicks that were refused, looks that came late and     *)
(* planks of an earlier craft change nothing of it (crafting.py:50-58,     *)
(* 351-430).  A nested closing may make it click again, and an inventory   *)
(* that closed by itself is opened by the key that was to close it.        *)
(***************************************************************************)
CraftIsTrue ==
    craft.phase = "complete" =>
        /\ crafted
        /\ ~nesting => clicks = 1
        /\ ~nesting /\ ~startled /\ closer = "none" => ~game.open
=============================================================================
