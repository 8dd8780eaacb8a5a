------------------------------- MODULE ParamScheduler -------------------------------
(***************************************************************************)
(* The learning rate and the weight decay of a training that is launched   *)
(* again and again (optimizer_param_scheduler.py): what the parameter      *)
(* groups of the optimizer hold when an update is made, from the samples   *)
(* of the updates before it, and from the values of this launch, of the    *)
(* checkpoint, or of either, as two flags say.  Rates are whole numbers;   *)
(* of the curves the constant and the linear one, from which the others    *)
(* differ by a coefficient.                                                *)
(***************************************************************************)
EXTENDS Integers

CONSTANTS RateLaunches,  \* see launch
          BatchSizes,    \* numbers of samples an update may be made of
          MaxSamples     \* bound on the samples of a training

VARIABLES launch,     \* the values of this launch and its two flags: [values, use, override]
          scheduler,  \* the scheduler's values and num_steps
          group,      \* lr and weight_decay of the optimizer's groups
          learned,    \* samples of the successful updates of this training, a history
          stepped,    \* a successful update was made in this launch
          rate_file,  \* << >>, or the checkpoint
          rate_failed \* an assertion of a launch has failed

rate_vars == <<launch, scheduler, group, learned, stepped, rate_file, rate_failed>>

(***************************************************************************)
(* The curves.                                                             *)
(***************************************************************************)
GetLr(v, n) ==
  IF v.warmup > 0 /\ n <= v.warmup
  THEN v.init_lr + ((v.max_lr - v.init_lr) * n) \div v.warmup
  ELSE IF v.style = "constant" THEN v.max_lr
  ELSE IF n > v.decay THEN v.min_lr
  ELSE v.min_lr + ((v.max_lr - v.min_lr) * (v.decay - n)) \div (v.decay - v.warmup)

GetWd(v, n) ==
  IF n > v.wd_steps \/ v.wd_style = "constant" THEN v.end_wd
  ELSE v.start_wd + ((v.end_wd - v.start_wd) * n) \div v.wd_steps

\* step(increment): the groups get what the values and the count give now.
Set(v, n) == [lr |-> GetLr(v, n), wd |-> GetWd(v, n)]

ConstructorAsserts(l) ==
  LET v == l.values
  IN  /\ 0 <= v.min_lr /\ v.min_lr <= v.max_lr /\ v.init_lr <= v.max_lr
      /\ 0 < v.decay /\ v.warmup < v.decay
      /\ 0 <= v.start_wd /\ v.start_wd <= v.end_wd
      /\ l.override => ~ l.use
      /\ v.wd_style = "constant" => v.start_wd = v.end_wd    \* in get_wd, at num_steps 0

(***************************************************************************)
(* load_state_dict, after the optimizer has loaded its groups.             *)
(***************************************************************************)
RateNames == {"init_lr", "max_lr", "min_lr", "warmup", "decay", "style"}

\* _check_and_set of one value.  init_lr is not in a checkpoint.
CheckAndSet(name, own, stored) ==
  IF launch.override \/ name = "init_lr" THEN own[name] ELSE stored[name]

Loaded(own, stored, names) ==
  [name \in DOMAIN own |-> IF name \in names THEN CheckAndSet(name, own, stored) ELSE own[name]]

ChecksFail(own, stored) ==
  /\ ~ launch.override /\ ~ launch.use
  /\ \E name \in DOMAIN own \ {"init_lr"} : own[name] # stored[name]

LoadStateDict_Own(stored) ==          \* mutant: the groups are set before any value is
  LET own == launch.values
  IN  /\ scheduler' = [values |-> Loaded(own, stored.values, DOMAIN own), num_steps |-> stored.num_steps]
      /\ group' = Set(own, stored.num_steps)
      /\ learned' = stored.learned

LoadStateDict(stored) ==
  LET own == launch.values
      rates == Loaded(own, stored.values, RateNames)
  IN  /\ scheduler' = [values |-> Loaded(own, stored.values, DOMAIN own), num_steps |-> stored.num_steps]
      \* the groups are set before the weight decay's values are
      /\ group' = Set(rates, stored.num_steps)
      /\ learned' = stored.learned

-----------------------------------------------------------------------------
Up == scheduler.num_steps >= 0
Down == [values |-> launch.values, num_steps |-> -1]

\* get_optimizer_param_scheduler, then load_checkpoint if there is one.
LaunchRates ==
  /\ ~ Up /\ ~ rate_failed
  /\ stepped' = FALSE
  /\ IF \/ ~ ConstructorAsserts(launch)
        \/ rate_file # << >> /\ ChecksFail(launch.values, rate_file[1].values)
     THEN rate_failed' = TRUE /\ UNCHANGED <<scheduler, group, learned>>
     ELSE /\ UNCHANGED rate_failed
          /\ IF rate_file # << >> THEN LoadStateDict(rate_file[1])
             ELSE /\ scheduler' = [values |-> launch.values, num_steps |-> 0]
                  /\ group' = Set(launch.values, 0)
                  /\ learned' = 0
  /\ UNCHANGED <<launch, rate_file>>

\* The end of train_step: after a successful update the next one's values are set.
Update(n, successful) ==
  /\ Up /\ learned + n <= MaxSamples
  /\ IF successful
     THEN /\ scheduler' = [scheduler EXCEPT !.num_steps = @ + n]
          /\ group' = Set(scheduler.values, scheduler.num_steps + n)
          /\ learned' = learned + n
          /\ stepped' = TRUE
     ELSE UNCHANGED <<scheduler, group, learned, stepped>>
  /\ UNCHANGED <<launch, rate_file, rate_failed>>

SaveRates ==
  /\ Up
  /\ rate_file' = << [values |-> scheduler.values, num_steps |-> scheduler.num_steps,
                      learned |-> learned] >>
  /\ UNCHANGED <<launch, scheduler, group, learned, stepped, rate_failed>>

\* The job ends, and is launched with values of its own.
EndRates ==
  /\ Up
  /\ launch' \in RateLaunches
  /\ scheduler' = [values |-> launch'.values, num_steps |-> -1]
  /\ UNCHANGED <<group, learned, stepped, rate_file, rate_failed>>

InitRates ==
  /\ launch \in RateLaunches
  /\ scheduler = Down
  /\ group = [lr |-> 0, wd |-> 0]
  /\ learned = 0
  /\ stepped = FALSE
  /\ rate_file = << >>
  /\ rate_failed = FALSE

NextRates ==
  \/ LaunchRates
  \/ \E n \in BatchSizes, successful \in BOOLEAN : Update(n, successful)
  \/ SaveRates
  \/ EndRates

SpecRates == InitRates /\ [][NextRates]_rate_vars

-----------------------------------------------------------------------------
(***************************************************************************)
(* Properties.                                                             *)
(***************************************************************************)
Smaller(x, y) == IF x < y THEN x ELSE y
Larger(x, y) == IF x < y THEN y ELSE x

\* Rates from the samples learned: up a line, down a line, and level behind.
RightRate(v) ==
  LET up == ((v.max_lr - v.init_lr) * Smaller(learned, v.warmup)) \div Larger(v.warmup, 1)
      down == ((v.max_lr - v.min_lr) * Larger(0, v.decay - learned)) \div (v.decay - v.warmup)
  IN  group.lr = IF v.warmup > 0 /\ learned <= v.warmup THEN v.init_lr + up
                 ELSE IF v.style = "constant" THEN v.max_lr ELSE v.min_lr + down

RightDecay(v) ==
  group.wd = v.start_wd
             + ((v.end_wd - v.start_wd) * Smaller(learned, v.wd_steps)) \div v.wd_steps

\* Whenever an update is made, the learning rate is the one that belongs to the
\* samples of the successful updates so far, over all launches, and so is the
\* weight decay, except in the first update after a restart: its weight decay
\* is still that of the launch's own values.
RatesFollowSamples ==
  Up => /\ scheduler.num_steps = learned
        /\ RightRate(scheduler.values)
        /\ RightDecay(IF ~ stepped THEN launch.values ELSE scheduler.values)
        /\ scheduler.values =
             IF launch.override \/ rate_file = << >> THEN launch.values
             ELSE [rate_file[1].values EXCEPT !.init_lr = launch.values.init_lr]
=====================================================================================
