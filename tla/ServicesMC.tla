------------------------------ MODULE ServicesMC ------------------------------
(* Small instances of the parts around the engine, which share nothing: part  *)
(* says which of them a behaviour is of, and the others keep a first state.   *)
EXTENDS Session, ChartPlayback, Settings, Requests, BarsLoader, ReportView, LogView,
        ScenarioGrid, ScenarioReport, Jobs, TLC

CONSTANTS a, b, c, btc, eth, someone, jan, feb, mar, key, secret, save1, save2, erase, start, bot

VARIABLE part

Parts == {"session", "playback", "settings", "requests", "loader", "report view", "log view",
          "grid", "scenario report", "jobs"}

Symmetry == Permutations({a, b})

\* What tabs do is divided among behaviours, so that the numbers of their
\* states add up.
Divided ==
  {[tabs |-> 2, sockets |-> 2, events |-> 2, forced |-> 0, logins |-> 0, pairs |-> {btc}],
   [tabs |-> 1, sockets |-> 2, events |-> 2, forced |-> 1, logins |-> 0, pairs |-> {}],
   [tabs |-> 1, sockets |-> 2, events |-> 1, forced |-> 1, logins |-> 0, pairs |-> {btc}],
   [tabs |-> 1, sockets |-> 1, events |-> 3, forced |-> 0, logins |-> 0, pairs |-> {btc, eth}],
   [tabs |-> 2, sockets |-> 3, events |-> 0, forced |-> 0, logins |-> 0, pairs |-> {}],
   [tabs |-> 1, sockets |-> 2, events |-> 2, forced |-> 0, logins |-> 1, pairs |-> {}],
   [tabs |-> 1, sockets |-> 1, events |-> 3, forced |-> 1, logins |-> 1, pairs |-> {}]}

SomeRequests ==
  save1 :> [kind |-> "save", fields |-> <<key, secret>>]
  @@ save2 :> [kind |-> "save", fields |-> <<key>>]
  @@ erase :> [kind |-> "delete", fields |-> <<key, secret>>]
  @@ start :> [kind |-> "read", fields |-> <<key, secret>>]

TwoRanges == "spring" :> <<jan, feb, mar>> @@ "february" :> <<feb>>

TwoSymbols == <<"btc", "eth">>

ServicesInit ==
  /\ part \in Parts
  /\ SessionInit
  /\ part = "session" \/ (~isStandalone /\ bound.sockets = 3)
  /\ PlaybackInit /\ SettingsInit /\ RequestsInit /\ LoaderInit /\ ViewInit /\ LogInit
  /\ GridInit /\ ReportInit
  /\ JobsInit /\ (part = "jobs" \/ \A j \in JobIds : jobRows[j] = NewRow)

Keeps(p, v) == IF part = p THEN TRUE ELSE UNCHANGED v

Others ==
  /\ Keeps("session", sessionVars)
  /\ Keeps("playback", playbackVars)
  /\ Keeps("settings", settingsVars)
  /\ Keeps("requests", requestsVars)
  /\ Keeps("loader", loaderVars)
  /\ Keeps("report view", viewVars)
  /\ Keeps("log view", logVars)
  /\ Keeps("grid", gridVars)
  /\ Keeps("scenario report", reportVars)
  /\ Keeps("jobs", jobsVars)
  /\ UNCHANGED part

ServicesNext ==
  \/ part = "session" /\ SessionNext /\ Others
  \/ part = "playback" /\ PlaybackNext /\ Others
  \/ part = "settings" /\ SettingsNext /\ Others
  \/ part = "requests" /\ RequestsNext /\ Others
  \/ part = "loader" /\ LoaderNext /\ Others
  \/ part = "report view" /\ ViewNext /\ Others
  \/ part = "log view" /\ LogNext /\ Others
  \/ part = "grid" /\ GridNext /\ Others
  \/ part = "scenario report" /\ ReportNext /\ Others
  \/ part = "jobs" /\ JobsNext /\ Others

servicesVars ==
  <<part, sessionVars, playbackVars, settingsVars, requestsVars, loaderVars, viewVars, logVars,
    gridVars, reportVars, jobsVars>>

ServicesSpec == ServicesInit /\ [][ServicesNext]_servicesVars
===============================================================================
