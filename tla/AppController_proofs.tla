------------------------ MODULE AppController_proofs ------------------------
(***************************************************************************)
(* Proofs about the runtime, for any sets of networks and tokens.          *)
(***************************************************************************)
EXTENDS AppController, TLAPS

\* Every variable starts with its type.
LEMMA TypeInit == Init => TypeOK
<1> SUFFICES ASSUME Init PROVE TypeOK
  OBVIOUS
<1>1. MainTypeOK
  BY DEF Init, MainTypeOK, MainPoints, AppStates
<1>2. ServiceTypeOK
  BY DEF Init, ServiceTypeOK, ProvStates
<1>3. ConfigTypeOK
  BY DEF Init, ConfigTypeOK, Blank, Configs
<1>4. TaskTypeOK
  BY DEF Init, TaskTypeOK, IdlePost, PostPoints, ToolPoints
<1> QED
  BY <1>1, <1>2, <1>3, <1>4 DEF TypeOK

\* Every step of every task, of the environment and of a power cycle keeps the
\* types; under each action, one step per group of variables it changes.
LEMMA TypeNext == TypeOK /\ [Next]_vars => TypeOK'
<1> SUFFICES ASSUME TypeOK, [Next]_vars PROVE TypeOK'
  OBVIOUS
<1>1. CASE InitOk
  <2>1. MainTypeOK'
    BY <1>1 DEF InitOk, Goto, history, TypeOK, MainTypeOK, MainPoints,
        AppStates
  <2>2. ServiceTypeOK'
    BY <1>1 DEF InitOk, Goto, history, TypeOK, ServiceTypeOK, ProvStates
  <2>3. ConfigTypeOK'
    BY <1>1 DEF InitOk, Goto, history, TypeOK, ConfigTypeOK, Configs,
        Submissions
  <2>4. TaskTypeOK'
    BY <1>1 DEF InitOk, history, TypeOK, TaskTypeOK
  <2> QED  BY <2>1, <2>2, <2>3, <2>4 DEF TypeOK
<1>2. CASE InitFails
  <2>1. MainTypeOK'
    BY <1>2 DEF InitFails, Goto, cfgVars, svcVars, history, TypeOK,
        MainTypeOK, MainPoints, AppStates
  <2>2. ServiceTypeOK' /\ ConfigTypeOK' /\ TaskTypeOK'
    BY <1>2 DEF InitFails, cfgVars, svcVars, history, TypeOK, ServiceTypeOK,
        ConfigTypeOK, TaskTypeOK
  <2> QED  BY <2>1, <2>2 DEF TypeOK
<1>3. CASE RunButtonPressed
  <2>1. MainTypeOK'
    BY <1>3 DEF RunButtonPressed, Goto, svcVars, history, TypeOK, MainTypeOK,
        MainPoints, AppStates
  <2>2. ConfigTypeOK'
    BY <1>3 DEF RunButtonPressed, Goto, svcVars, history, TypeOK,
        ConfigTypeOK, Configs, Submissions
  <2>3. ServiceTypeOK' /\ TaskTypeOK'
    BY <1>3 DEF RunButtonPressed, svcVars, history, TypeOK, ServiceTypeOK,
        TaskTypeOK
  <2> QED  BY <2>1, <2>2, <2>3 DEF TypeOK
<1>4. CASE RunButtonPersist
  <2>1. MainTypeOK'
    BY <1>4 DEF RunButtonPersist, Goto, Persist, PersistOk, PersistFails,
        svcVars, TypeOK, MainTypeOK, MainPoints, AppStates
  <2>2. ConfigTypeOK'
    BY <1>4 DEF RunButtonPersist, Goto, Persist, PersistOk, PersistFails,
        svcVars, TypeOK, ConfigTypeOK, Configs, Submissions
  <2>3. ServiceTypeOK' /\ TaskTypeOK'
    BY <1>4 DEF RunButtonPersist, svcVars, TypeOK, ServiceTypeOK, TaskTypeOK
  <2> QED  BY <2>1, <2>2, <2>3 DEF TypeOK
<1>5. CASE RunUnprovisioned
  <2>1. MainTypeOK'
    BY <1>5 DEF RunUnprovisioned, Goto, provisioned, cfgVars, svcVars,
        history, TypeOK, MainTypeOK, MainPoints, AppStates
  <2>2. ServiceTypeOK' /\ ConfigTypeOK' /\ TaskTypeOK'
    BY <1>5 DEF RunUnprovisioned, cfgVars, svcVars, history, TypeOK,
        ServiceTypeOK, ConfigTypeOK, TaskTypeOK
  <2> QED  BY <2>1, <2>2 DEF TypeOK
<1>6. CASE RunProvisioned
  <2>1. MainTypeOK'
    BY <1>6 DEF RunProvisioned, Goto, provisioned, cfgVars, svcVars, history,
        TypeOK, MainTypeOK, MainPoints, AppStates
  <2>2. ServiceTypeOK' /\ ConfigTypeOK' /\ TaskTypeOK'
    BY <1>6 DEF RunProvisioned, cfgVars, svcVars, history, TypeOK,
        ServiceTypeOK, ConfigTypeOK, TaskTypeOK
  <2> QED  BY <2>1, <2>2 DEF TypeOK
<1>7. CASE ConnectBegin
  <2>1. MainTypeOK'
    BY <1>7 DEF ConnectBegin, Goto, provisioned, cfgVars, svcVars, history,
        TypeOK, MainTypeOK, MainPoints, AppStates
  <2>2. ServiceTypeOK'
    BY <1>7 DEF ConnectBegin, Goto, provisioned, cfgVars, svcVars, history,
        TypeOK, ServiceTypeOK, ProvStates
  <2>3. ConfigTypeOK' /\ TaskTypeOK'
    BY <1>7 DEF ConnectBegin, cfgVars, svcVars, history, TypeOK, ConfigTypeOK,
        TaskTypeOK
  <2> QED  BY <2>1, <2>2, <2>3 DEF TypeOK
<1>9. CASE ConnectOk
  <2>1. MainTypeOK'
    BY <1>9 DEF ConnectOk, Goto, cfgVars, svcVars, history, TypeOK,
        MainTypeOK, MainPoints, AppStates
  <2>2. ServiceTypeOK'
    BY <1>9 DEF ConnectOk, Goto, cfgVars, svcVars, history, TypeOK,
        ServiceTypeOK, ProvStates
  <2>3. ConfigTypeOK' /\ TaskTypeOK'
    BY <1>9 DEF ConnectOk, cfgVars, svcVars, history, TypeOK, ConfigTypeOK,
        TaskTypeOK
  <2> QED  BY <2>1, <2>2, <2>3 DEF TypeOK
<1>10. CASE ConnectFails
  <2>1. MainTypeOK'
    BY <1>10 DEF ConnectFails, Goto, cfgVars, svcVars, history, TypeOK,
        MainTypeOK, MainPoints, AppStates
  <2>2. ServiceTypeOK' /\ ConfigTypeOK' /\ TaskTypeOK'
    BY <1>10 DEF ConnectFails, cfgVars, svcVars, history, TypeOK,
        ServiceTypeOK, ConfigTypeOK, TaskTypeOK
  <2> QED  BY <2>1, <2>2 DEF TypeOK
<1>11. CASE ResetPortal
  <2>1. MainTypeOK'
    BY <1>11 DEF ResetPortal, Goto, PortalQuiet, ClosePortal, history, TypeOK,
        MainTypeOK, MainPoints, AppStates
  <2>2. ServiceTypeOK'
    BY <1>11 DEF ResetPortal, Goto, PortalQuiet, ClosePortal, history, TypeOK,
        ServiceTypeOK, ProvStates
  <2>3. ConfigTypeOK'
    BY <1>11 DEF ResetPortal, Goto, PortalQuiet, ClosePortal, history, TypeOK,
        ConfigTypeOK, Configs, Submissions
  <2>4. TaskTypeOK'
    BY <1>11 DEF ResetPortal, history, TypeOK, TaskTypeOK
  <2> QED  BY <2>1, <2>2, <2>3, <2>4 DEF TypeOK
<1>12. CASE ResetPersist
  <2>1. MainTypeOK'
    BY <1>12 DEF ResetPersist, Goto, Persist, PersistOk, PersistFails,
        StopApOk, StopApFails, svcVars, TypeOK, MainTypeOK, MainPoints,
        AppStates
  <2>2. ServiceTypeOK'
    <3>1. UNCHANGED svcVars /\ (StopApOk \/ StopApFails)
      BY <1>12 DEF ResetPersist
    <3>2. radio' \in [ap : BOOLEAN, link : BOOLEAN]
      <4>1. CASE StopApOk     BY <4>1 DEF StopApOk
      <4>2. CASE StopApFails  BY <4>2 DEF StopApFails, TypeOK, ServiceTypeOK
      <4> QED  BY <3>1, <4>1, <4>2
    <3> QED
      BY <3>1, <3>2 DEF svcVars, TypeOK, ServiceTypeOK
  <2>3. ConfigTypeOK'
    BY <1>12 DEF ResetPersist, Goto, Persist, PersistOk, PersistFails,
        StopApOk, StopApFails, svcVars, TypeOK, ConfigTypeOK, Configs,
        Submissions
  <2>4. TaskTypeOK'
    BY <1>12 DEF ResetPersist, svcVars, TypeOK, TaskTypeOK
  <2> QED  BY <2>1, <2>2, <2>3, <2>4 DEF TypeOK
<1>13. CASE StartDiscovery
  <2>1. MainTypeOK'
    BY <1>13 DEF StartDiscovery, Goto, cfgVars, svcVars, history, TypeOK,
        MainTypeOK, MainPoints, AppStates
  <2>2. ServiceTypeOK' /\ ConfigTypeOK' /\ TaskTypeOK'
    BY <1>13 DEF StartDiscovery, cfgVars, svcVars, history, TypeOK,
        ServiceTypeOK, ConfigTypeOK, TaskTypeOK
  <2> QED  BY <2>1, <2>2 DEF TypeOK
<1>14. CASE StartDiscoveryFails
  <2>1. MainTypeOK'
    BY <1>14 DEF StartDiscoveryFails, ReturnErr, cfgVars, svcVars, history,
        TypeOK, MainTypeOK, MainPoints, AppStates
  <2>2. ServiceTypeOK' /\ ConfigTypeOK' /\ TaskTypeOK'
    BY <1>14 DEF StartDiscoveryFails, cfgVars, svcVars, history, TypeOK,
        ServiceTypeOK, ConfigTypeOK, TaskTypeOK
  <2> QED  BY <2>1, <2>2 DEF TypeOK
<1>15. CASE McpStart
  <2>1. MainTypeOK'
    BY <1>15 DEF McpStart, Goto, cfgVars, history, TypeOK, MainTypeOK,
        MainPoints, AppStates
  <2>2. ServiceTypeOK'
    BY <1>15 DEF McpStart, Goto, cfgVars, history, TypeOK, ServiceTypeOK,
        ProvStates
  <2>3. ConfigTypeOK' /\ TaskTypeOK'
    BY <1>15 DEF McpStart, cfgVars, history, TypeOK, ConfigTypeOK, TaskTypeOK
  <2> QED  BY <2>1, <2>2, <2>3 DEF TypeOK
<1>16. CASE McpStartFails
  <2>1. MainTypeOK'
    BY <1>16 DEF McpStartFails, ReturnErr, cfgVars, svcVars, history, TypeOK,
        MainTypeOK, MainPoints, AppStates
  <2>2. ServiceTypeOK' /\ ConfigTypeOK' /\ TaskTypeOK'
    BY <1>16 DEF McpStartFails, cfgVars, svcVars, history, TypeOK,
        ServiceTypeOK, ConfigTypeOK, TaskTypeOK
  <2> QED  BY <2>1, <2>2 DEF TypeOK
<1>17. CASE McpPolicy
  <2>1. MainTypeOK'
    BY <1>17 DEF McpPolicy, ReturnOk, hasToken, cfgVars, svcVars, history,
        TypeOK, MainTypeOK, MainPoints, AppStates
  <2>2. ServiceTypeOK' /\ ConfigTypeOK' /\ TaskTypeOK'
    BY <1>17 DEF McpPolicy, cfgVars, svcVars, history, TypeOK, ServiceTypeOK,
        ConfigTypeOK, TaskTypeOK
  <2> QED  BY <2>1, <2>2 DEF TypeOK
<1>18. CASE StartProvisioning
  <2>1. MainTypeOK'
    BY <1>18 DEF StartProvisioning, Goto, cfgVars, svcVars, history, TypeOK,
        MainTypeOK, MainPoints, AppStates
  <2>2. ServiceTypeOK' /\ ConfigTypeOK' /\ TaskTypeOK'
    BY <1>18 DEF StartProvisioning, cfgVars, svcVars, history, TypeOK,
        ServiceTypeOK, ConfigTypeOK, TaskTypeOK
  <2> QED  BY <2>1, <2>2 DEF TypeOK
<1>19. CASE McpStop
  <2>1. MainTypeOK'
    BY <1>19 DEF McpStop, Goto, McpQuiet, cfgVars, history, TypeOK,
        MainTypeOK, MainPoints, AppStates
  <2>2. ServiceTypeOK'
    BY <1>19 DEF McpStop, Goto, McpQuiet, cfgVars, history, TypeOK,
        ServiceTypeOK, ProvStates
  <2>3. ConfigTypeOK' /\ TaskTypeOK'
    BY <1>19 DEF McpStop, cfgVars, history, TypeOK, ConfigTypeOK, TaskTypeOK
  <2> QED  BY <2>1, <2>2, <2>3 DEF TypeOK
<1>20. CASE StartAp
  <2>1. MainTypeOK'
    BY <1>20 DEF StartAp, Goto, cfgVars, svcVars, history, TypeOK, MainTypeOK,
        MainPoints, AppStates
  <2>2. ServiceTypeOK'
    BY <1>20 DEF StartAp, Goto, cfgVars, svcVars, history, TypeOK,
        ServiceTypeOK, ProvStates
  <2>3. ConfigTypeOK' /\ TaskTypeOK'
    BY <1>20 DEF StartAp, cfgVars, svcVars, history, TypeOK, ConfigTypeOK,
        TaskTypeOK
  <2> QED  BY <2>1, <2>2, <2>3 DEF TypeOK
<1>21. CASE StartApFails
  <2>1. MainTypeOK'
    BY <1>21 DEF StartApFails, ReturnErr, cfgVars, svcVars, history, TypeOK,
        MainTypeOK, MainPoints, AppStates
  <2>2. ServiceTypeOK'
    BY <1>21 DEF StartApFails, ReturnErr, cfgVars, svcVars, history, TypeOK,
        ServiceTypeOK, ProvStates
  <2>3. ConfigTypeOK' /\ TaskTypeOK'
    BY <1>21 DEF StartApFails, cfgVars, svcVars, history, TypeOK,
        ConfigTypeOK, TaskTypeOK
  <2> QED  BY <2>1, <2>2, <2>3 DEF TypeOK
<1>22. CASE HttpStart
  <2>1. MainTypeOK'
    BY <1>22 DEF HttpStart, Goto, cfgVars, history, TypeOK, MainTypeOK,
        MainPoints, AppStates
  <2>2. ServiceTypeOK'
    BY <1>22 DEF HttpStart, Goto, cfgVars, history, TypeOK, ServiceTypeOK,
        ProvStates
  <2>3. ConfigTypeOK' /\ TaskTypeOK'
    BY <1>22 DEF HttpStart, cfgVars, history, TypeOK, ConfigTypeOK, TaskTypeOK
  <2> QED  BY <2>1, <2>2, <2>3 DEF TypeOK
<1>23. CASE HttpStartFails
  <2>1. MainTypeOK'
    BY <1>23 DEF HttpStartFails, ReturnErr, StopApOk, StopApFails, cfgVars,
        svcVars, history, TypeOK, MainTypeOK, MainPoints, AppStates
  <2>2. ServiceTypeOK'
    <3>1. UNCHANGED svcVars /\ (StopApOk \/ StopApFails)
      BY <1>23 DEF HttpStartFails
    <3>2. radio' \in [ap : BOOLEAN, link : BOOLEAN]
      <4>1. CASE StopApOk     BY <4>1 DEF StopApOk
      <4>2. CASE StopApFails  BY <4>2 DEF StopApFails, TypeOK, ServiceTypeOK
      <4> QED  BY <3>1, <4>1, <4>2
    <3> QED
      BY <3>1, <3>2 DEF svcVars, TypeOK, ServiceTypeOK
  <2>3. ConfigTypeOK' /\ TaskTypeOK'
    BY <1>23 DEF HttpStartFails, cfgVars, svcVars, history, TypeOK,
        ConfigTypeOK, TaskTypeOK
  <2> QED  BY <2>1, <2>2, <2>3 DEF TypeOK
<1>24. CASE SetHandlers
  <2>1. MainTypeOK'
    BY <1>24 DEF SetHandlers, Goto, cfgVars, history, TypeOK, MainTypeOK,
        MainPoints, AppStates
  <2>2. ServiceTypeOK'
    BY <1>24 DEF SetHandlers, Goto, cfgVars, history, TypeOK, ServiceTypeOK,
        ProvStates
  <2>3. ConfigTypeOK' /\ TaskTypeOK'
    BY <1>24 DEF SetHandlers, cfgVars, history, TypeOK, ConfigTypeOK,
        TaskTypeOK
  <2> QED  BY <2>1, <2>2, <2>3 DEF TypeOK
<1>25. CASE SetActive
  <2>1. MainTypeOK'
    BY <1>25 DEF SetActive, ReturnOk, cfgVars, history, TypeOK, MainTypeOK,
        MainPoints, AppStates
  <2>2. ServiceTypeOK'
    BY <1>25 DEF SetActive, ReturnOk, cfgVars, history, TypeOK, ServiceTypeOK,
        ProvStates
  <2>3. ConfigTypeOK' /\ TaskTypeOK'
    BY <1>25 DEF SetActive, cfgVars, history, TypeOK, ConfigTypeOK, TaskTypeOK
  <2> QED  BY <2>1, <2>2, <2>3 DEF TypeOK
<1>26. CASE TickUnprovisioned
  <2>1. MainTypeOK'
    BY <1>26 DEF TickUnprovisioned, Goto, provisioned, cfgVars, svcVars,
        history, TypeOK, MainTypeOK, MainPoints, AppStates
  <2>2. ServiceTypeOK' /\ ConfigTypeOK' /\ TaskTypeOK'
    BY <1>26 DEF TickUnprovisioned, cfgVars, svcVars, history, TypeOK,
        ServiceTypeOK, ConfigTypeOK, TaskTypeOK
  <2> QED  BY <2>1, <2>2 DEF TypeOK
<1>27. CASE TickSubmitted
  <2>1. MainTypeOK'
    BY <1>27 DEF TickSubmitted, Goto, provisioned, cfgVars, svcVars, history,
        TypeOK, MainTypeOK, MainPoints, AppStates
  <2>2. ServiceTypeOK' /\ ConfigTypeOK' /\ TaskTypeOK'
    BY <1>27 DEF TickSubmitted, cfgVars, svcVars, history, TypeOK,
        ServiceTypeOK, ConfigTypeOK, TaskTypeOK
  <2> QED  BY <2>1, <2>2 DEF TypeOK
<1>28. CASE Disconnect
  <2>1. MainTypeOK'
    BY <1>28 DEF Disconnect, Goto, cfgVars, svcVars, history, TypeOK,
        MainTypeOK, MainPoints, AppStates
  <2>2. ServiceTypeOK'
    BY <1>28 DEF Disconnect, Goto, cfgVars, svcVars, history, TypeOK,
        ServiceTypeOK, ProvStates
  <2>3. ConfigTypeOK' /\ TaskTypeOK'
    BY <1>28 DEF Disconnect, cfgVars, svcVars, history, TypeOK, ConfigTypeOK,
        TaskTypeOK
  <2> QED  BY <2>1, <2>2, <2>3 DEF TypeOK
<1>29. CASE PortalStop
  <2>1. MainTypeOK'
    BY <1>29 DEF PortalStop, Goto, PortalQuiet, ClosePortal, cfgVars, history,
        TypeOK, MainTypeOK, MainPoints, AppStates
  <2>2. ServiceTypeOK'
    BY <1>29 DEF PortalStop, Goto, PortalQuiet, ClosePortal, cfgVars, history,
        TypeOK, ServiceTypeOK, ProvStates
  <2>3. ConfigTypeOK' /\ TaskTypeOK'
    BY <1>29 DEF PortalStop, cfgVars, history, TypeOK, ConfigTypeOK,
        TaskTypeOK
  <2> QED  BY <2>1, <2>2, <2>3 DEF TypeOK
<1>30. CASE StopAp
  <2>1. MainTypeOK'
    BY <1>30 DEF StopAp, Goto, StopApOk, cfgVars, svcVars, history, TypeOK,
        MainTypeOK, MainPoints, AppStates
  <2>2. ServiceTypeOK'
    BY <1>30 DEF StopAp, Goto, StopApOk, cfgVars, svcVars, history, TypeOK,
        ServiceTypeOK, ProvStates
  <2>3. ConfigTypeOK' /\ TaskTypeOK'
    BY <1>30 DEF StopAp, cfgVars, svcVars, history, TypeOK, ConfigTypeOK,
        TaskTypeOK
  <2> QED  BY <2>1, <2>2, <2>3 DEF TypeOK
<1>31. CASE StopApError
  <2>1. MainTypeOK'
    BY <1>31 DEF StopApError, ReturnErr, StopApFails, cfgVars, svcVars,
        history, TypeOK, MainTypeOK, MainPoints, AppStates
  <2>2. ServiceTypeOK' /\ ConfigTypeOK' /\ TaskTypeOK'
    BY <1>31 DEF StopApError, StopApFails, cfgVars, svcVars, history, TypeOK,
        ServiceTypeOK, ConfigTypeOK, TaskTypeOK
  <2> QED  BY <2>1, <2>2 DEF TypeOK
<1>32. CASE PostSetWifi
  <2>1. ConfigTypeOK'
    BY <1>32 DEF PostSetWifi, mainVars, svcVars, history, TypeOK,
        ConfigTypeOK, TaskTypeOK, Configs, Submissions
  <2>2. TaskTypeOK'
    BY <1>32 DEF PostSetWifi, mainVars, svcVars, history, TypeOK, TaskTypeOK,
        PostPoints, ToolPoints
  <2>3. MainTypeOK' /\ ServiceTypeOK'
    BY <1>32 DEF PostSetWifi, mainVars, svcVars, history, TypeOK, MainTypeOK,
        ServiceTypeOK
  <2> QED  BY <2>1, <2>2, <2>3 DEF TypeOK
<1>33. CASE PostPersistWifi
  <2>1. ConfigTypeOK'
    BY <1>33 DEF PostPersistWifi, PersistOk, mainVars, svcVars, TypeOK,
        ConfigTypeOK, Configs, Submissions
  <2>2. TaskTypeOK'
    BY <1>33 DEF PostPersistWifi, PersistOk, mainVars, svcVars, TypeOK,
        TaskTypeOK, PostPoints, ToolPoints
  <2>3. MainTypeOK' /\ ServiceTypeOK'
    BY <1>33 DEF PostPersistWifi, mainVars, svcVars, TypeOK, MainTypeOK,
        ServiceTypeOK
  <2> QED  BY <2>1, <2>2, <2>3 DEF TypeOK
<1>34. CASE PostRejected
  <2>1. ConfigTypeOK'
    BY <1>34 DEF PostRejected, PersistFails, IdlePost, mainVars, svcVars,
        TypeOK, ConfigTypeOK, Configs, Submissions
  <2>2. TaskTypeOK'
    BY <1>34 DEF PostRejected, PersistFails, IdlePost, mainVars, svcVars,
        TypeOK, TaskTypeOK, PostPoints, ToolPoints
  <2>3. MainTypeOK' /\ ServiceTypeOK'
    BY <1>34 DEF PostRejected, mainVars, svcVars, TypeOK, MainTypeOK,
        ServiceTypeOK
  <2> QED  BY <2>1, <2>2, <2>3 DEF TypeOK
<1>35. CASE PostPatch
  <2>1. ConfigTypeOK'
    BY <1>35 DEF PostPatch, Persist, PersistOk, PersistFails, mainVars,
        svcVars, history, TypeOK, ConfigTypeOK, Configs, Submissions
  <2>2. TaskTypeOK'
    BY <1>35 DEF PostPatch, Persist, PersistOk, PersistFails, mainVars,
        svcVars, history, TypeOK, TaskTypeOK, PostPoints, ToolPoints
  <2>3. MainTypeOK' /\ ServiceTypeOK'
    BY <1>35 DEF PostPatch, mainVars, svcVars, history, TypeOK, MainTypeOK,
        ServiceTypeOK
  <2> QED  BY <2>1, <2>2, <2>3 DEF TypeOK
<1>36. CASE PostSetToken
  <2>1. ConfigTypeOK'
    BY <1>36 DEF PostSetToken, mainVars, svcVars, history, TypeOK,
        ConfigTypeOK, TaskTypeOK, Configs, Submissions
  <2>2. TaskTypeOK'
    BY <1>36 DEF PostSetToken, mainVars, svcVars, history, TypeOK, TaskTypeOK,
        PostPoints, ToolPoints
  <2>3. MainTypeOK' /\ ServiceTypeOK'
    BY <1>36 DEF PostSetToken, mainVars, svcVars, history, TypeOK, MainTypeOK,
        ServiceTypeOK
  <2> QED  BY <2>1, <2>2, <2>3 DEF TypeOK
<1>37. CASE PostPersistToken
  <2>1. ConfigTypeOK'
    BY <1>37 DEF PostPersistToken, Persist, PersistOk, PersistFails, mainVars,
        svcVars, history, TypeOK, ConfigTypeOK, Configs, Submissions
  <2>2. TaskTypeOK'
    BY <1>37 DEF PostPersistToken, Persist, PersistOk, PersistFails, mainVars,
        svcVars, history, TypeOK, TaskTypeOK, PostPoints, ToolPoints
  <2>3. MainTypeOK' /\ ServiceTypeOK'
    BY <1>37 DEF PostPersistToken, mainVars, svcVars, history, TypeOK,
        MainTypeOK, ServiceTypeOK
  <2> QED  BY <2>1, <2>2, <2>3 DEF TypeOK
<1>38. CASE PostFinish
  <2>1. ServiceTypeOK'
    BY <1>38 DEF PostFinish, IdlePost, mainVars, cfgVars, TypeOK,
        ServiceTypeOK, ProvStates
  <2>2. ConfigTypeOK'
    BY <1>38 DEF PostFinish, IdlePost, mainVars, cfgVars, TypeOK,
        ConfigTypeOK, TaskTypeOK, Configs, Submissions
  <2>3. TaskTypeOK'
    BY <1>38 DEF PostFinish, IdlePost, mainVars, cfgVars, TypeOK, TaskTypeOK,
        PostPoints, ToolPoints
  <2>4. MainTypeOK'
    BY <1>38 DEF PostFinish, mainVars, cfgVars, TypeOK, MainTypeOK
  <2> QED  BY <2>1, <2>2, <2>3, <2>4 DEF TypeOK
<1>39. ASSUME NEW form \in Submissions, PostArrives(form) PROVE TypeOK'
  <2>1. TaskTypeOK'
    BY <1>39 DEF PostArrives, mainVars, cfgVars, svcVars, history, TypeOK,
        TaskTypeOK, PostPoints, ToolPoints
  <2>2. MainTypeOK' /\ ServiceTypeOK' /\ ConfigTypeOK'
    BY <1>39 DEF PostArrives, mainVars, cfgVars, svcVars, history, TypeOK,
        MainTypeOK, ServiceTypeOK, ConfigTypeOK
  <2> QED  BY <2>1, <2>2 DEF TypeOK
<1>40. CASE ToolArrives
  <2>1. TaskTypeOK'
    BY <1>40 DEF ToolArrives, hasToken, mainVars, cfgVars, svcVars, history,
        TypeOK, TaskTypeOK, PostPoints, ToolPoints
  <2>2. MainTypeOK' /\ ServiceTypeOK' /\ ConfigTypeOK'
    BY <1>40 DEF ToolArrives, mainVars, cfgVars, svcVars, history, TypeOK,
        MainTypeOK, ServiceTypeOK, ConfigTypeOK
  <2> QED  BY <2>1, <2>2 DEF TypeOK
<1>41. CASE ToolWorking
  <2>1. TaskTypeOK'
    BY <1>41 DEF ToolWorking, mainVars, cfgVars, svcVars, history, TypeOK,
        TaskTypeOK, PostPoints, ToolPoints
  <2>2. MainTypeOK' /\ ServiceTypeOK' /\ ConfigTypeOK'
    BY <1>41 DEF ToolWorking, mainVars, cfgVars, svcVars, history, TypeOK,
        MainTypeOK, ServiceTypeOK, ConfigTypeOK
  <2> QED  BY <2>1, <2>2 DEF TypeOK
<1>42. CASE ToolDisconnect
  <2>1. ServiceTypeOK'
    BY <1>42 DEF ToolDisconnect, mainVars, cfgVars, svcVars, history, TypeOK,
        ServiceTypeOK, ProvStates
  <2>2. TaskTypeOK'
    BY <1>42 DEF ToolDisconnect, mainVars, cfgVars, svcVars, history, TypeOK,
        TaskTypeOK, PostPoints, ToolPoints
  <2>3. MainTypeOK' /\ ConfigTypeOK'
    BY <1>42 DEF ToolDisconnect, mainVars, cfgVars, svcVars, history, TypeOK,
        MainTypeOK, ConfigTypeOK
  <2> QED  BY <2>1, <2>2, <2>3 DEF TypeOK
<1>43. CASE ToolHttpStop
  <2>1. ServiceTypeOK'
    BY <1>43 DEF ToolHttpStop, PortalQuiet, ClosePortal, mainVars, cfgVars,
        history, TypeOK, ServiceTypeOK, ProvStates
  <2>2. TaskTypeOK'
    BY <1>43 DEF ToolHttpStop, PortalQuiet, ClosePortal, mainVars, cfgVars,
        history, TypeOK, TaskTypeOK, PostPoints, ToolPoints
  <2>3. MainTypeOK' /\ ConfigTypeOK'
    BY <1>43 DEF ToolHttpStop, mainVars, cfgVars, history, TypeOK, MainTypeOK,
        ConfigTypeOK
  <2> QED  BY <2>1, <2>2, <2>3 DEF TypeOK
<1>44. CASE ToolClear
  <2>1. ServiceTypeOK'
    BY <1>44 DEF ToolClear, mainVars, history, TypeOK, ServiceTypeOK,
        ProvStates
  <2>2. ConfigTypeOK'
    BY <1>44 DEF ToolClear, mainVars, history, TypeOK, ConfigTypeOK, Configs,
        Submissions
  <2>3. TaskTypeOK'
    BY <1>44 DEF ToolClear, mainVars, history, TypeOK, TaskTypeOK, PostPoints,
        ToolPoints
  <2>4. MainTypeOK'
    BY <1>44 DEF ToolClear, mainVars, history, TypeOK, MainTypeOK
  <2> QED  BY <2>1, <2>2, <2>3, <2>4 DEF TypeOK
<1>45. CASE ToolPersist
  <2>1. ConfigTypeOK'
    BY <1>45 DEF ToolPersist, PersistOk, PersistFails, mainVars, svcVars,
        TypeOK, ConfigTypeOK, Configs, Submissions
  <2>2. TaskTypeOK'
    BY <1>45 DEF ToolPersist, PersistOk, PersistFails, mainVars, svcVars,
        TypeOK, TaskTypeOK, PostPoints, ToolPoints
  <2>3. MainTypeOK' /\ ServiceTypeOK'
    BY <1>45 DEF ToolPersist, mainVars, svcVars, TypeOK, MainTypeOK,
        ServiceTypeOK
  <2> QED  BY <2>1, <2>2, <2>3 DEF TypeOK
<1>46. CASE LinkLost
  <2>1. ServiceTypeOK'
    BY <1>46 DEF LinkLost, mainVars, cfgVars, svcVars, history, TypeOK,
        ServiceTypeOK, ProvStates
  <2>2. MainTypeOK' /\ ConfigTypeOK' /\ TaskTypeOK'
    BY <1>46 DEF LinkLost, mainVars, cfgVars, svcVars, history, TypeOK,
        MainTypeOK, ConfigTypeOK, TaskTypeOK
  <2> QED  BY <2>1, <2>2 DEF TypeOK
<1>47. CASE PowerCycle
  <2>1. MainTypeOK'
    BY <1>47 DEF PowerCycle, ClosePortal, Blank, IdlePost, history, TypeOK,
        MainTypeOK, MainPoints, AppStates
  <2>2. ServiceTypeOK'
    BY <1>47 DEF PowerCycle, ClosePortal, Blank, IdlePost, history, TypeOK,
        ServiceTypeOK, ProvStates
  <2>3. ConfigTypeOK'
    BY <1>47 DEF PowerCycle, ClosePortal, Blank, IdlePost, history, TypeOK,
        ConfigTypeOK, Configs, Submissions
  <2>4. TaskTypeOK'
    BY <1>47 DEF PowerCycle, ClosePortal, Blank, IdlePost, history, TypeOK,
        TaskTypeOK, PostPoints, ToolPoints
  <2> QED  BY <2>1, <2>2, <2>3, <2>4 DEF TypeOK
<1>48. CASE UNCHANGED vars
  BY <1>48 DEF vars, mainVars, cfgVars, svcVars, history, TypeOK, MainTypeOK,
      ServiceTypeOK, ConfigTypeOK, TaskTypeOK
<1> QED
  BY <1>1, <1>2, <1>3, <1>4, <1>5, <1>6, <1>7, <1>9, <1>10, <1>11,
     <1>12, <1>13, <1>14, <1>15, <1>16, <1>17, <1>18, <1>19, <1>20, <1>21,
     <1>22, <1>23, <1>24, <1>25, <1>26, <1>27, <1>28, <1>29, <1>30, <1>31,
     <1>32, <1>33, <1>34, <1>35, <1>36, <1>37, <1>38, <1>39, <1>40, <1>41,
     <1>42, <1>43, <1>44, <1>45, <1>46, <1>47, <1>48
     DEF Next, MainStep, MainInit, MainRun, Connect, EnableMcp, Provision, Tick,
         PostStep, ToolStep, Requests

\* AppController.TypeOK holds of every behaviour.
THEOREM TypeCorrect == Spec => []TypeOK
BY TypeInit, TypeNext, PTL DEF Spec

\* No server runs and nothing is acknowledged when the program starts.
LEMMA SafetyInit == Init => SafetyInv
BY DEF Init, Blank, IdlePost, hasToken, SafetyInv, PortalPlaces, McpPlaces,
       FormInHand, ResetInHand, AcceptedNetworkDurable

\* The strengthened invariant is inductive, given the types.
LEMMA SafetyNext == TypeOK /\ SafetyInv /\ [Next]_vars => SafetyInv'
<1> SUFFICES ASSUME TypeOK, SafetyInv, [Next]_vars PROVE SafetyInv'
  OBVIOUS
<1>1. CASE InitOk
  <2>1. PortalPlaces'
    BY <1>1 DEF InitOk, Goto, history, SafetyInv, PortalPlaces
  <2>2. McpPlaces'
    BY <1>1 DEF InitOk, Goto, history, hasToken, SafetyInv, McpPlaces,
        PortalPlaces, ConfigTypeOK, Configs, FormInHand, Submissions,
        TaskTypeOK, TypeOK
  <2>3. FormInHand'
    BY <1>1 DEF InitOk, Goto, history, SafetyInv, FormInHand, PortalPlaces,
        McpPlaces, ConfigTypeOK, Configs, TaskTypeOK, TypeOK
  <2>4. ResetInHand'
    BY <1>1 DEF InitOk, Goto, history, SafetyInv, ResetInHand, PortalPlaces,
        McpPlaces, ConfigTypeOK, Configs, TypeOK
  <2>5. AcceptedNetworkDurable'
    BY <1>1 DEF InitOk, history, SafetyInv, AcceptedNetworkDurable
  <2> QED  BY <2>1, <2>2, <2>3, <2>4, <2>5 DEF SafetyInv
<1>2. CASE InitFails
  <2>1. PortalPlaces'
    BY <1>2 DEF InitFails, Goto, cfgVars, svcVars, history, SafetyInv,
        PortalPlaces
  <2>2. McpPlaces'
    BY <1>2 DEF InitFails, Goto, cfgVars, svcVars, history, hasToken,
        SafetyInv, McpPlaces
  <2>3. FormInHand' /\ ResetInHand' /\ AcceptedNetworkDurable'
    BY <1>2 DEF InitFails, cfgVars, svcVars, history, SafetyInv, FormInHand,
        ResetInHand, AcceptedNetworkDurable
  <2> QED  BY <2>1, <2>2, <2>3 DEF SafetyInv
<1>3. CASE RunButtonPressed
  <2>1. PortalPlaces'
    BY <1>3 DEF RunButtonPressed, Goto, svcVars, history, SafetyInv,
        PortalPlaces
  <2>2. McpPlaces'
    BY <1>3 DEF RunButtonPressed, Goto, svcVars, history, hasToken, SafetyInv,
        McpPlaces, ConfigTypeOK, Configs, FormInHand, Submissions, TaskTypeOK,
        TypeOK
  <2>3. FormInHand'
    BY <1>3 DEF RunButtonPressed, Goto, svcVars, history, SafetyInv,
        FormInHand, PortalPlaces, McpPlaces, ConfigTypeOK, Configs,
        TaskTypeOK, TypeOK
  <2>4. ResetInHand'
    BY <1>3 DEF RunButtonPressed, Goto, svcVars, history, SafetyInv,
        ResetInHand, PortalPlaces, McpPlaces, ConfigTypeOK, Configs, TypeOK
  <2>5. AcceptedNetworkDurable'
    BY <1>3 DEF RunButtonPressed, svcVars, history, SafetyInv,
        AcceptedNetworkDurable
  <2> QED  BY <2>1, <2>2, <2>3, <2>4, <2>5 DEF SafetyInv
<1>4. CASE RunButtonPersist
  <2>1. PortalPlaces'
    BY <1>4 DEF RunButtonPersist, Goto, Persist, PersistOk, PersistFails,
        svcVars, SafetyInv, PortalPlaces
  <2>2. McpPlaces'
    BY <1>4 DEF RunButtonPersist, Goto, Persist, PersistOk, PersistFails,
        svcVars, hasToken, SafetyInv, McpPlaces
  <2>3. FormInHand'
    BY <1>4 DEF RunButtonPersist, Goto, Persist, PersistOk, PersistFails,
        svcVars, SafetyInv, FormInHand, PortalPlaces, McpPlaces, TypeOK,
        TaskTypeOK, ConfigTypeOK
  <2>4. ResetInHand'
    BY <1>4 DEF RunButtonPersist, Goto, Persist, PersistOk, PersistFails,
        svcVars, SafetyInv, ResetInHand, PortalPlaces, McpPlaces, TypeOK,
        ConfigTypeOK
  <2>5. AcceptedNetworkDurable'
    BY <1>4 DEF RunButtonPersist, Goto, Persist, PersistOk, PersistFails,
        svcVars, SafetyInv, AcceptedNetworkDurable
  <2> QED  BY <2>1, <2>2, <2>3, <2>4, <2>5 DEF SafetyInv
<1>5. CASE RunUnprovisioned
  <2>1. PortalPlaces'
    BY <1>5 DEF RunUnprovisioned, Goto, provisioned, cfgVars, svcVars,
        history, SafetyInv, PortalPlaces
  <2>2. McpPlaces'
    BY <1>5 DEF RunUnprovisioned, Goto, provisioned, cfgVars, svcVars,
        history, hasToken, SafetyInv, McpPlaces
  <2>3. FormInHand' /\ ResetInHand' /\ AcceptedNetworkDurable'
    BY <1>5 DEF RunUnprovisioned, cfgVars, svcVars, history, SafetyInv,
        FormInHand, ResetInHand, AcceptedNetworkDurable
  <2> QED  BY <2>1, <2>2, <2>3 DEF SafetyInv
<1>6. CASE RunProvisioned
  <2>1. PortalPlaces'
    BY <1>6 DEF RunProvisioned, Goto, provisioned, cfgVars, svcVars, history,
        SafetyInv, PortalPlaces
  <2>2. McpPlaces'
    BY <1>6 DEF RunProvisioned, Goto, provisioned, cfgVars, svcVars, history,
        hasToken, SafetyInv, McpPlaces
  <2>3. FormInHand' /\ ResetInHand' /\ AcceptedNetworkDurable'
    BY <1>6 DEF RunProvisioned, cfgVars, svcVars, history, SafetyInv,
        FormInHand, ResetInHand, AcceptedNetworkDurable
  <2> QED  BY <2>1, <2>2, <2>3 DEF SafetyInv
<1>7. CASE ConnectBegin
  <2>1. PortalPlaces'
    BY <1>7 DEF ConnectBegin, Goto, provisioned, cfgVars, svcVars, history,
        SafetyInv, PortalPlaces
  <2>2. McpPlaces'
    BY <1>7 DEF ConnectBegin, Goto, provisioned, cfgVars, svcVars, history,
        hasToken, SafetyInv, McpPlaces
  <2>3. FormInHand' /\ ResetInHand' /\ AcceptedNetworkDurable'
    BY <1>7 DEF ConnectBegin, cfgVars, svcVars, history, SafetyInv,
        FormInHand, ResetInHand, AcceptedNetworkDurable
  <2> QED  BY <2>1, <2>2, <2>3 DEF SafetyInv
<1>9. CASE ConnectOk
  <2>1. PortalPlaces'
    BY <1>9 DEF ConnectOk, Goto, cfgVars, svcVars, history, SafetyInv,
        PortalPlaces
  <2>2. McpPlaces'
    BY <1>9 DEF ConnectOk, Goto, cfgVars, svcVars, history, hasToken,
        SafetyInv, McpPlaces
  <2>3. FormInHand' /\ ResetInHand' /\ AcceptedNetworkDurable'
    BY <1>9 DEF ConnectOk, cfgVars, svcVars, history, SafetyInv, FormInHand,
        ResetInHand, AcceptedNetworkDurable
  <2> QED  BY <2>1, <2>2, <2>3 DEF SafetyInv
<1>10. CASE ConnectFails
  <2>1. PortalPlaces'
    BY <1>10 DEF ConnectFails, Goto, cfgVars, svcVars, history, SafetyInv,
        PortalPlaces
  <2>2. McpPlaces'
    BY <1>10 DEF ConnectFails, Goto, cfgVars, svcVars, history, hasToken,
        SafetyInv, McpPlaces
  <2>3. FormInHand' /\ ResetInHand' /\ AcceptedNetworkDurable'
    BY <1>10 DEF ConnectFails, cfgVars, svcVars, history, SafetyInv,
        FormInHand, ResetInHand, AcceptedNetworkDurable
  <2> QED  BY <2>1, <2>2, <2>3 DEF SafetyInv
<1>11. CASE ResetPortal
  <2>1. PortalPlaces'
    BY <1>11 DEF ResetPortal, Goto, PortalQuiet, ClosePortal, history,
        SafetyInv, PortalPlaces
  <2>2. McpPlaces'
    BY <1>11 DEF ResetPortal, Goto, PortalQuiet, ClosePortal, history,
        hasToken, SafetyInv, McpPlaces, ConfigTypeOK, Configs, FormInHand,
        Submissions, TaskTypeOK, TypeOK
  <2>3. FormInHand'
    BY <1>11 DEF ResetPortal, Goto, PortalQuiet, ClosePortal, history,
        SafetyInv, FormInHand, PortalPlaces, McpPlaces, ConfigTypeOK, Configs,
        TaskTypeOK, TypeOK
  <2>4. ResetInHand'
    BY <1>11 DEF ResetPortal, Goto, PortalQuiet, ClosePortal, history,
        SafetyInv, ResetInHand, PortalPlaces, McpPlaces, ConfigTypeOK,
        Configs, TypeOK
  <2>5. AcceptedNetworkDurable'
    BY <1>11 DEF ResetPortal, history, SafetyInv, AcceptedNetworkDurable
  <2> QED  BY <2>1, <2>2, <2>3, <2>4, <2>5 DEF SafetyInv
<1>12. CASE ResetPersist
  <2>1. PortalPlaces'
    BY <1>12 DEF ResetPersist, Goto, Persist, PersistOk, PersistFails,
        StopApOk, StopApFails, svcVars, SafetyInv, PortalPlaces
  <2>2. McpPlaces'
    BY <1>12 DEF ResetPersist, Goto, Persist, PersistOk, PersistFails,
        StopApOk, StopApFails, svcVars, hasToken, SafetyInv, McpPlaces
  <2>3. FormInHand'
    BY <1>12 DEF ResetPersist, Goto, Persist, PersistOk, PersistFails,
        StopApOk, StopApFails, svcVars, SafetyInv, FormInHand, PortalPlaces,
        McpPlaces, TypeOK, TaskTypeOK, ConfigTypeOK
  <2>4. ResetInHand'
    BY <1>12 DEF ResetPersist, Goto, Persist, PersistOk, PersistFails,
        StopApOk, StopApFails, svcVars, SafetyInv, ResetInHand, PortalPlaces,
        McpPlaces, TypeOK, ConfigTypeOK
  <2>5. AcceptedNetworkDurable'
    BY <1>12 DEF ResetPersist, Goto, Persist, PersistOk, PersistFails,
        StopApOk, StopApFails, svcVars, SafetyInv, AcceptedNetworkDurable
  <2> QED  BY <2>1, <2>2, <2>3, <2>4, <2>5 DEF SafetyInv
<1>13. CASE StartDiscovery
  <2>1. PortalPlaces'
    BY <1>13 DEF StartDiscovery, Goto, cfgVars, svcVars, history, SafetyInv,
        PortalPlaces
  <2>2. McpPlaces'
    BY <1>13 DEF StartDiscovery, Goto, cfgVars, svcVars, history, hasToken,
        SafetyInv, McpPlaces
  <2>3. FormInHand' /\ ResetInHand' /\ AcceptedNetworkDurable'
    BY <1>13 DEF StartDiscovery, cfgVars, svcVars, history, SafetyInv,
        FormInHand, ResetInHand, AcceptedNetworkDurable
  <2> QED  BY <2>1, <2>2, <2>3 DEF SafetyInv
<1>14. CASE StartDiscoveryFails
  <2>1. PortalPlaces'
    BY <1>14 DEF StartDiscoveryFails, ReturnErr, cfgVars, svcVars, history,
        SafetyInv, PortalPlaces
  <2>2. McpPlaces'
    BY <1>14 DEF StartDiscoveryFails, ReturnErr, cfgVars, svcVars, history,
        hasToken, SafetyInv, McpPlaces
  <2>3. FormInHand' /\ ResetInHand' /\ AcceptedNetworkDurable'
    BY <1>14 DEF StartDiscoveryFails, cfgVars, svcVars, history, SafetyInv,
        FormInHand, ResetInHand, AcceptedNetworkDurable
  <2> QED  BY <2>1, <2>2, <2>3 DEF SafetyInv
<1>15. CASE McpStart
  <2>1. PortalPlaces'
    BY <1>15 DEF McpStart, Goto, cfgVars, history, SafetyInv, PortalPlaces
  <2>2. McpPlaces'
    BY <1>15 DEF McpStart, Goto, cfgVars, history, hasToken, SafetyInv,
        McpPlaces
  <2>3. FormInHand' /\ ResetInHand' /\ AcceptedNetworkDurable'
    BY <1>15 DEF McpStart, cfgVars, history, SafetyInv, FormInHand,
        ResetInHand, AcceptedNetworkDurable
  <2> QED  BY <2>1, <2>2, <2>3 DEF SafetyInv
<1>16. CASE McpStartFails
  <2>1. PortalPlaces'
    BY <1>16 DEF McpStartFails, ReturnErr, cfgVars, svcVars, history,
        SafetyInv, PortalPlaces
  <2>2. McpPlaces'
    BY <1>16 DEF McpStartFails, ReturnErr, cfgVars, svcVars, history,
        hasToken, SafetyInv, McpPlaces
  <2>3. FormInHand' /\ ResetInHand' /\ AcceptedNetworkDurable'
    BY <1>16 DEF McpStartFails, cfgVars, svcVars, history, SafetyInv,
        FormInHand, ResetInHand, AcceptedNetworkDurable
  <2> QED  BY <2>1, <2>2, <2>3 DEF SafetyInv
<1>17. CASE McpPolicy
  <2>1. PortalPlaces'
    BY <1>17 DEF McpPolicy, ReturnOk, hasToken, cfgVars, svcVars, history,
        SafetyInv, PortalPlaces
  <2>2. McpPlaces'
    <3>1. mcpEnabled' => hasToken'
      BY <1>17, Zenon DEF McpPolicy, hasToken, cfgVars
    <3>2. mcpUp' /\ pc' = "idle" /\ state' = "CONNECTED_IDLE" /\ UNCHANGED tool
      BY <1>17 DEF McpPolicy, ReturnOk, svcVars, SafetyInv, McpPlaces
    <3> QED
      BY <3>1, <3>2 DEF McpPlaces
  <2>3. FormInHand' /\ ResetInHand' /\ AcceptedNetworkDurable'
    BY <1>17 DEF McpPolicy, cfgVars, svcVars, history, SafetyInv, FormInHand,
        ResetInHand, AcceptedNetworkDurable
  <2> QED  BY <2>1, <2>2, <2>3 DEF SafetyInv
<1>18. CASE StartProvisioning
  <2>1. PortalPlaces'
    BY <1>18 DEF StartProvisioning, Goto, cfgVars, svcVars, history,
        SafetyInv, PortalPlaces
  <2>2. McpPlaces'
    BY <1>18 DEF StartProvisioning, Goto, cfgVars, svcVars, history, hasToken,
        SafetyInv, McpPlaces
  <2>3. FormInHand' /\ ResetInHand' /\ AcceptedNetworkDurable'
    BY <1>18 DEF StartProvisioning, cfgVars, svcVars, history, SafetyInv,
        FormInHand, ResetInHand, AcceptedNetworkDurable
  <2> QED  BY <2>1, <2>2, <2>3 DEF SafetyInv
<1>19. CASE McpStop
  <2>1. PortalPlaces'
    BY <1>19 DEF McpStop, Goto, McpQuiet, cfgVars, history, SafetyInv,
        PortalPlaces
  <2>2. McpPlaces'
    BY <1>19 DEF McpStop, Goto, McpQuiet, cfgVars, history, hasToken,
        SafetyInv, McpPlaces
  <2>3. FormInHand' /\ ResetInHand' /\ AcceptedNetworkDurable'
    BY <1>19 DEF McpStop, cfgVars, history, SafetyInv, FormInHand,
        ResetInHand, AcceptedNetworkDurable
  <2> QED  BY <2>1, <2>2, <2>3 DEF SafetyInv
<1>20. CASE StartAp
  <2>1. PortalPlaces'
    BY <1>20 DEF StartAp, Goto, cfgVars, svcVars, history, SafetyInv,
        PortalPlaces
  <2>2. McpPlaces'
    BY <1>20 DEF StartAp, Goto, cfgVars, svcVars, history, hasToken,
        SafetyInv, McpPlaces
  <2>3. FormInHand' /\ ResetInHand' /\ AcceptedNetworkDurable'
    BY <1>20 DEF StartAp, cfgVars, svcVars, history, SafetyInv, FormInHand,
        ResetInHand, AcceptedNetworkDurable
  <2> QED  BY <2>1, <2>2, <2>3 DEF SafetyInv
<1>21. CASE StartApFails
  <2>1. PortalPlaces'
    BY <1>21 DEF StartApFails, ReturnErr, cfgVars, svcVars, history,
        SafetyInv, PortalPlaces
  <2>2. McpPlaces'
    BY <1>21 DEF StartApFails, ReturnErr, cfgVars, svcVars, history, hasToken,
        SafetyInv, McpPlaces
  <2>3. FormInHand' /\ ResetInHand' /\ AcceptedNetworkDurable'
    BY <1>21 DEF StartApFails, cfgVars, svcVars, history, SafetyInv,
        FormInHand, ResetInHand, AcceptedNetworkDurable
  <2> QED  BY <2>1, <2>2, <2>3 DEF SafetyInv
<1>22. CASE HttpStart
  <2>1. PortalPlaces'
    BY <1>22 DEF HttpStart, Goto, cfgVars, history, SafetyInv, PortalPlaces
  <2>2. McpPlaces'
    BY <1>22 DEF HttpStart, Goto, cfgVars, history, hasToken, SafetyInv,
        McpPlaces
  <2>3. FormInHand' /\ ResetInHand' /\ AcceptedNetworkDurable'
    BY <1>22 DEF HttpStart, cfgVars, history, SafetyInv, FormInHand,
        ResetInHand, AcceptedNetworkDurable
  <2> QED  BY <2>1, <2>2, <2>3 DEF SafetyInv
<1>23. CASE HttpStartFails
  <2>1. PortalPlaces'
    BY <1>23 DEF HttpStartFails, ReturnErr, StopApOk, StopApFails, cfgVars,
        svcVars, history, SafetyInv, PortalPlaces
  <2>2. McpPlaces'
    BY <1>23 DEF HttpStartFails, ReturnErr, StopApOk, StopApFails, cfgVars,
        svcVars, history, hasToken, SafetyInv, McpPlaces
  <2>3. FormInHand' /\ ResetInHand' /\ AcceptedNetworkDurable'
    BY <1>23 DEF HttpStartFails, StopApFails, cfgVars, svcVars, history,
        SafetyInv, FormInHand, ResetInHand, AcceptedNetworkDurable
  <2> QED  BY <2>1, <2>2, <2>3 DEF SafetyInv
<1>24. CASE SetHandlers
  <2>1. PortalPlaces'
    BY <1>24 DEF SetHandlers, Goto, cfgVars, history, TypeOK, ServiceTypeOK,
        SafetyInv, PortalPlaces
  <2>2. McpPlaces'
    BY <1>24 DEF SetHandlers, Goto, cfgVars, history, hasToken, SafetyInv,
        McpPlaces
  <2>3. FormInHand' /\ ResetInHand' /\ AcceptedNetworkDurable'
    BY <1>24 DEF SetHandlers, cfgVars, history, SafetyInv, FormInHand,
        ResetInHand, AcceptedNetworkDurable
  <2> QED  BY <2>1, <2>2, <2>3 DEF SafetyInv
<1>25. CASE SetActive
  <2>1. PortalPlaces'
    BY <1>25 DEF SetActive, ReturnOk, cfgVars, history, SafetyInv,
        PortalPlaces
  <2>2. McpPlaces'
    BY <1>25 DEF SetActive, ReturnOk, cfgVars, history, hasToken, SafetyInv,
        McpPlaces
  <2>3. FormInHand' /\ ResetInHand' /\ AcceptedNetworkDurable'
    BY <1>25 DEF SetActive, cfgVars, history, SafetyInv, FormInHand,
        ResetInHand, AcceptedNetworkDurable
  <2> QED  BY <2>1, <2>2, <2>3 DEF SafetyInv
<1>26. CASE TickUnprovisioned
  <2>1. PortalPlaces'
    BY <1>26 DEF TickUnprovisioned, Goto, provisioned, cfgVars, svcVars,
        history, SafetyInv, PortalPlaces
  <2>2. McpPlaces'
    BY <1>26 DEF TickUnprovisioned, Goto, provisioned, cfgVars, svcVars,
        history, hasToken, SafetyInv, McpPlaces
  <2>3. FormInHand' /\ ResetInHand' /\ AcceptedNetworkDurable'
    BY <1>26 DEF TickUnprovisioned, cfgVars, svcVars, history, SafetyInv,
        FormInHand, ResetInHand, AcceptedNetworkDurable
  <2> QED  BY <2>1, <2>2, <2>3 DEF SafetyInv
<1>27. CASE TickSubmitted
  <2>1. PortalPlaces'
    BY <1>27 DEF TickSubmitted, Goto, provisioned, cfgVars, svcVars, history,
        SafetyInv, PortalPlaces
  <2>2. McpPlaces'
    BY <1>27 DEF TickSubmitted, Goto, provisioned, cfgVars, svcVars, history,
        hasToken, SafetyInv, McpPlaces
  <2>3. FormInHand' /\ ResetInHand' /\ AcceptedNetworkDurable'
    BY <1>27 DEF TickSubmitted, cfgVars, svcVars, history, SafetyInv,
        FormInHand, ResetInHand, AcceptedNetworkDurable
  <2> QED  BY <2>1, <2>2, <2>3 DEF SafetyInv
<1>28. CASE Disconnect
  <2>1. PortalPlaces'
    BY <1>28 DEF Disconnect, Goto, cfgVars, svcVars, history, SafetyInv,
        PortalPlaces
  <2>2. McpPlaces'
    BY <1>28 DEF Disconnect, Goto, cfgVars, svcVars, history, hasToken,
        SafetyInv, McpPlaces
  <2>3. FormInHand' /\ ResetInHand' /\ AcceptedNetworkDurable'
    BY <1>28 DEF Disconnect, cfgVars, svcVars, history, SafetyInv, FormInHand,
        ResetInHand, AcceptedNetworkDurable
  <2> QED  BY <2>1, <2>2, <2>3 DEF SafetyInv
<1>29. CASE PortalStop
  <2>1. PortalPlaces'
    BY <1>29 DEF PortalStop, Goto, PortalQuiet, ClosePortal, cfgVars, history,
        SafetyInv, PortalPlaces
  <2>2. McpPlaces'
    BY <1>29 DEF PortalStop, Goto, PortalQuiet, ClosePortal, cfgVars, history,
        hasToken, SafetyInv, McpPlaces
  <2>3. FormInHand' /\ ResetInHand' /\ AcceptedNetworkDurable'
    BY <1>29 DEF PortalStop, cfgVars, history, SafetyInv, FormInHand,
        ResetInHand, AcceptedNetworkDurable
  <2> QED  BY <2>1, <2>2, <2>3 DEF SafetyInv
<1>30. CASE StopAp
  <2>1. PortalPlaces'
    BY <1>30 DEF StopAp, Goto, StopApOk, cfgVars, svcVars, history, SafetyInv,
        PortalPlaces
  <2>2. McpPlaces'
    BY <1>30 DEF StopAp, Goto, StopApOk, cfgVars, svcVars, history, hasToken,
        SafetyInv, McpPlaces
  <2>3. FormInHand' /\ ResetInHand' /\ AcceptedNetworkDurable'
    BY <1>30 DEF StopAp, cfgVars, svcVars, history, SafetyInv, FormInHand,
        ResetInHand, AcceptedNetworkDurable
  <2> QED  BY <2>1, <2>2, <2>3 DEF SafetyInv
<1>31. CASE StopApError
  <2>1. PortalPlaces'
    BY <1>31 DEF StopApError, ReturnErr, StopApFails, cfgVars, svcVars,
        history, SafetyInv, PortalPlaces
  <2>2. McpPlaces'
    BY <1>31 DEF StopApError, ReturnErr, StopApFails, cfgVars, svcVars,
        history, hasToken, SafetyInv, McpPlaces
  <2>3. FormInHand' /\ ResetInHand' /\ AcceptedNetworkDurable'
    BY <1>31 DEF StopApError, StopApFails, cfgVars, svcVars, history,
        SafetyInv, FormInHand, ResetInHand, AcceptedNetworkDurable
  <2> QED  BY <2>1, <2>2, <2>3 DEF SafetyInv
<1>32. CASE PostSetWifi
  <2>1. PortalPlaces'
    BY <1>32 DEF PostSetWifi, mainVars, svcVars, history, SafetyInv,
        PortalPlaces, ConfigTypeOK, Configs, Submissions, TaskTypeOK, TypeOK
  <2>2. McpPlaces'
    BY <1>32 DEF PostSetWifi, mainVars, svcVars, history, hasToken, SafetyInv,
        McpPlaces, PortalPlaces, ConfigTypeOK, Configs, FormInHand,
        Submissions, TaskTypeOK, TypeOK
  <2>3. FormInHand'
    BY <1>32 DEF PostSetWifi, mainVars, svcVars, history, SafetyInv,
        FormInHand, PortalPlaces, McpPlaces, ConfigTypeOK, Configs,
        Submissions, TaskTypeOK, TypeOK
  <2>4. ResetInHand'
    BY <1>32 DEF PostSetWifi, mainVars, svcVars, history, SafetyInv,
        ResetInHand, PortalPlaces, McpPlaces, FormInHand, ConfigTypeOK,
        Configs, Submissions, TaskTypeOK, TypeOK
  <2>5. AcceptedNetworkDurable'
    BY <1>32 DEF PostSetWifi, mainVars, svcVars, history, SafetyInv,
        AcceptedNetworkDurable
  <2> QED  BY <2>1, <2>2, <2>3, <2>4, <2>5 DEF SafetyInv
<1>33. CASE PostPersistWifi
  <2>1. PortalPlaces'
    BY <1>33 DEF PostPersistWifi, PersistOk, mainVars, svcVars, SafetyInv,
        PortalPlaces
  <2>2. FormInHand'
    BY <1>33 DEF PostPersistWifi, PersistOk, mainVars, svcVars, SafetyInv,
        FormInHand, PortalPlaces, McpPlaces, TypeOK, TaskTypeOK, ConfigTypeOK
  <2>3. ResetInHand'
    BY <1>33 DEF PostPersistWifi, PersistOk, mainVars, svcVars, SafetyInv,
        ResetInHand, PortalPlaces, McpPlaces, FormInHand, TypeOK, ConfigTypeOK
  <2>4. AcceptedNetworkDurable'
    BY <1>33 DEF PostPersistWifi, PersistOk, mainVars, svcVars, SafetyInv,
        AcceptedNetworkDurable, FormInHand
  <2>5. McpPlaces'
    BY <1>33 DEF PostPersistWifi, mainVars, svcVars, SafetyInv, McpPlaces,
        hasToken
  <2> QED  BY <2>1, <2>2, <2>3, <2>4, <2>5 DEF SafetyInv
<1>34. CASE PostRejected
  <2>1. PortalPlaces'
    BY <1>34 DEF PostRejected, PersistFails, IdlePost, mainVars, svcVars,
        SafetyInv, PortalPlaces
  <2>2. FormInHand'
    BY <1>34 DEF PostRejected, PersistFails, IdlePost, mainVars, svcVars,
        SafetyInv, FormInHand, PortalPlaces, McpPlaces, TypeOK, TaskTypeOK,
        ConfigTypeOK
  <2>3. ResetInHand'
    BY <1>34 DEF PostRejected, PersistFails, IdlePost, mainVars, svcVars,
        SafetyInv, ResetInHand, PortalPlaces, McpPlaces, FormInHand, TypeOK,
        ConfigTypeOK
  <2>4. AcceptedNetworkDurable'
    BY <1>34 DEF PostRejected, PersistFails, IdlePost, mainVars, svcVars,
        SafetyInv, AcceptedNetworkDurable, FormInHand
  <2>5. McpPlaces'
    BY <1>34 DEF PostRejected, mainVars, svcVars, SafetyInv, McpPlaces,
        hasToken
  <2> QED  BY <2>1, <2>2, <2>3, <2>4, <2>5 DEF SafetyInv
<1>35. CASE PostPatch
  <2>1. PortalPlaces'
    BY <1>35 DEF PostPatch, Persist, PersistOk, PersistFails, mainVars,
        svcVars, history, SafetyInv, PortalPlaces, ConfigTypeOK, Configs,
        Submissions, TaskTypeOK, TypeOK
  <2>2. FormInHand'
    BY <1>35 DEF PostPatch, Persist, PersistOk, PersistFails, mainVars,
        svcVars, history, SafetyInv, FormInHand, PortalPlaces, McpPlaces,
        ConfigTypeOK, Configs, Submissions, TaskTypeOK, TypeOK
  <2>3. ResetInHand'
    BY <1>35 DEF PostPatch, Persist, PersistOk, PersistFails, mainVars,
        svcVars, history, SafetyInv, ResetInHand, PortalPlaces, McpPlaces,
        FormInHand, ConfigTypeOK, Configs, Submissions, TaskTypeOK, TypeOK
  <2>4. AcceptedNetworkDurable'
    BY <1>35 DEF PostPatch, Persist, PersistOk, PersistFails, mainVars,
        svcVars, history, SafetyInv, AcceptedNetworkDurable, FormInHand,
        ConfigTypeOK, Configs, Submissions, TaskTypeOK, TypeOK
  <2>5. McpPlaces'
    BY <1>35 DEF PostPatch, mainVars, svcVars, history, SafetyInv, McpPlaces,
        hasToken
  <2> QED  BY <2>1, <2>2, <2>3, <2>4, <2>5 DEF SafetyInv
<1>36. CASE PostSetToken
  <2>1. PortalPlaces'
    BY <1>36 DEF PostSetToken, mainVars, svcVars, history, SafetyInv,
        PortalPlaces, ConfigTypeOK, Configs, Submissions, TaskTypeOK, TypeOK
  <2>2. McpPlaces'
    BY <1>36 DEF PostSetToken, mainVars, svcVars, history, hasToken,
        SafetyInv, McpPlaces, PortalPlaces, ConfigTypeOK, Configs, FormInHand,
        Submissions, TaskTypeOK, TypeOK
  <2>3. FormInHand'
    BY <1>36 DEF PostSetToken, mainVars, svcVars, history, SafetyInv,
        FormInHand, PortalPlaces, McpPlaces, ConfigTypeOK, Configs,
        Submissions, TaskTypeOK, TypeOK
  <2>4. ResetInHand'
    BY <1>36 DEF PostSetToken, mainVars, svcVars, history, SafetyInv,
        ResetInHand, PortalPlaces, McpPlaces, FormInHand, ConfigTypeOK,
        Configs, Submissions, TaskTypeOK, TypeOK
  <2>5. AcceptedNetworkDurable'
    BY <1>36 DEF PostSetToken, mainVars, svcVars, history, SafetyInv,
        AcceptedNetworkDurable
  <2> QED  BY <2>1, <2>2, <2>3, <2>4, <2>5 DEF SafetyInv
<1>37. CASE PostPersistToken
  <2>1. PortalPlaces'
    BY <1>37 DEF PostPersistToken, Persist, PersistOk, PersistFails, mainVars,
        svcVars, history, SafetyInv, PortalPlaces
  <2>2. FormInHand'
    BY <1>37 DEF PostPersistToken, Persist, PersistOk, PersistFails, mainVars,
        svcVars, history, SafetyInv, FormInHand, PortalPlaces, McpPlaces,
        TypeOK, TaskTypeOK, ConfigTypeOK
  <2>3. ResetInHand'
    BY <1>37 DEF PostPersistToken, Persist, PersistOk, PersistFails, mainVars,
        svcVars, history, SafetyInv, ResetInHand, PortalPlaces, McpPlaces,
        FormInHand, TypeOK, ConfigTypeOK
  <2>4. AcceptedNetworkDurable'
    BY <1>37 DEF PostPersistToken, Persist, PersistOk, PersistFails, mainVars,
        svcVars, history, SafetyInv, AcceptedNetworkDurable, FormInHand
  <2>5. McpPlaces'
    BY <1>37 DEF PostPersistToken, mainVars, svcVars, history, SafetyInv,
        McpPlaces, hasToken
  <2> QED  BY <2>1, <2>2, <2>3, <2>4, <2>5 DEF SafetyInv
<1>38. CASE PostFinish
  <2>1. PortalPlaces'
    BY <1>38 DEF PostFinish, IdlePost, mainVars, cfgVars, SafetyInv,
        PortalPlaces, ConfigTypeOK, Configs, Submissions, TaskTypeOK, TypeOK
  <2>2. FormInHand'
    BY <1>38 DEF PostFinish, IdlePost, mainVars, cfgVars, SafetyInv,
        FormInHand, PortalPlaces, McpPlaces, ConfigTypeOK, Configs,
        Submissions, TaskTypeOK, TypeOK
  <2>3. ResetInHand'
    BY <1>38 DEF PostFinish, IdlePost, mainVars, cfgVars, SafetyInv,
        ResetInHand, PortalPlaces, McpPlaces, FormInHand, ConfigTypeOK,
        Configs, Submissions, TaskTypeOK, TypeOK
  <2>4. AcceptedNetworkDurable'
    BY <1>38 DEF PostFinish, IdlePost, mainVars, cfgVars, SafetyInv,
        AcceptedNetworkDurable, FormInHand, ConfigTypeOK, Configs,
        Submissions, TaskTypeOK, TypeOK
  <2>5. McpPlaces'
    BY <1>38 DEF PostFinish, mainVars, cfgVars, SafetyInv, McpPlaces, hasToken
  <2> QED  BY <2>1, <2>2, <2>3, <2>4, <2>5 DEF SafetyInv
<1>39. ASSUME NEW form \in Submissions, PostArrives(form) PROVE SafetyInv'
  <2>1. PortalPlaces'
    BY <1>39 DEF PostArrives, mainVars, cfgVars, svcVars, history, SafetyInv,
        PortalPlaces, ConfigTypeOK, Configs, Submissions, TaskTypeOK, TypeOK
  <2>2. FormInHand'
    BY <1>39 DEF PostArrives, mainVars, cfgVars, svcVars, history, SafetyInv,
        FormInHand, PortalPlaces, McpPlaces, ConfigTypeOK, Configs,
        Submissions, TaskTypeOK, TypeOK
  <2>3. ResetInHand'
    BY <1>39 DEF PostArrives, mainVars, cfgVars, svcVars, history, SafetyInv,
        ResetInHand, PortalPlaces, McpPlaces, FormInHand, ConfigTypeOK,
        Configs, Submissions, TaskTypeOK, TypeOK
  <2>4. McpPlaces' /\ AcceptedNetworkDurable'
    BY <1>39 DEF PostArrives, mainVars, cfgVars, svcVars, history, SafetyInv,
        McpPlaces, AcceptedNetworkDurable, hasToken
  <2> QED  BY <2>1, <2>2, <2>3, <2>4 DEF SafetyInv
<1>40. CASE ToolArrives
  <2>1. McpPlaces'
    BY <1>40 DEF ToolArrives, hasToken, mainVars, cfgVars, svcVars, history,
        SafetyInv, McpPlaces
  <2>2. ResetInHand'
    BY <1>40 DEF ToolArrives, hasToken, mainVars, cfgVars, svcVars, history,
        SafetyInv, ResetInHand, PortalPlaces, McpPlaces, TypeOK, ConfigTypeOK
  <2>3. PortalPlaces' /\ FormInHand' /\ AcceptedNetworkDurable'
    BY <1>40 DEF ToolArrives, mainVars, cfgVars, svcVars, history, SafetyInv,
        PortalPlaces, FormInHand, AcceptedNetworkDurable
  <2> QED  BY <2>1, <2>2, <2>3 DEF SafetyInv
<1>41. CASE ToolWorking
  <2>1. McpPlaces'
    BY <1>41 DEF ToolWorking, mainVars, cfgVars, svcVars, history, hasToken,
        SafetyInv, McpPlaces
  <2>2. ResetInHand'
    BY <1>41 DEF ToolWorking, mainVars, cfgVars, svcVars, history, SafetyInv,
        ResetInHand, PortalPlaces, McpPlaces, TypeOK, ConfigTypeOK
  <2>3. PortalPlaces' /\ FormInHand' /\ AcceptedNetworkDurable'
    BY <1>41 DEF ToolWorking, mainVars, cfgVars, svcVars, history, SafetyInv,
        PortalPlaces, FormInHand, AcceptedNetworkDurable
  <2> QED  BY <2>1, <2>2, <2>3 DEF SafetyInv
<1>42. CASE ToolDisconnect
  <2>1. McpPlaces'
    BY <1>42 DEF ToolDisconnect, mainVars, cfgVars, svcVars, history,
        hasToken, SafetyInv, McpPlaces
  <2>2. ResetInHand'
    BY <1>42 DEF ToolDisconnect, mainVars, cfgVars, svcVars, history,
        SafetyInv, ResetInHand, PortalPlaces, McpPlaces, TypeOK, ConfigTypeOK
  <2>3. PortalPlaces' /\ FormInHand' /\ AcceptedNetworkDurable'
    BY <1>42 DEF ToolDisconnect, mainVars, cfgVars, svcVars, history,
        SafetyInv, PortalPlaces, FormInHand, AcceptedNetworkDurable
  <2> QED  BY <2>1, <2>2, <2>3 DEF SafetyInv
<1>43. CASE ToolHttpStop
  <2>1. PortalPlaces'
    BY <1>43 DEF ToolHttpStop, PortalQuiet, ClosePortal, mainVars, cfgVars,
        history, SafetyInv, PortalPlaces, McpPlaces
  <2>2. McpPlaces'
    BY <1>43 DEF ToolHttpStop, PortalQuiet, ClosePortal, mainVars, cfgVars,
        history, hasToken, SafetyInv, McpPlaces
  <2>3. ResetInHand'
    BY <1>43 DEF ToolHttpStop, PortalQuiet, ClosePortal, mainVars, cfgVars,
        history, SafetyInv, ResetInHand, PortalPlaces, McpPlaces, TypeOK,
        ConfigTypeOK
  <2>4. FormInHand' /\ AcceptedNetworkDurable'
    BY <1>43 DEF ToolHttpStop, mainVars, cfgVars, history, SafetyInv,
        FormInHand, AcceptedNetworkDurable
  <2> QED  BY <2>1, <2>2, <2>3, <2>4 DEF SafetyInv
<1>44. CASE ToolClear
  <2>1. McpPlaces'
    BY <1>44 DEF ToolClear, mainVars, history, hasToken, SafetyInv, McpPlaces,
        ConfigTypeOK, Configs, FormInHand, Submissions, TaskTypeOK, TypeOK
  <2>2. FormInHand'
    BY <1>44 DEF ToolClear, mainVars, history, SafetyInv, FormInHand,
        PortalPlaces, McpPlaces, ConfigTypeOK, Configs, TaskTypeOK, TypeOK
  <2>3. ResetInHand'
    BY <1>44 DEF ToolClear, mainVars, history, SafetyInv, ResetInHand,
        PortalPlaces, McpPlaces, ConfigTypeOK, Configs, TypeOK
  <2>4. PortalPlaces' /\ AcceptedNetworkDurable'
    BY <1>44 DEF ToolClear, mainVars, history, SafetyInv, PortalPlaces,
        AcceptedNetworkDurable
  <2> QED  BY <2>1, <2>2, <2>3, <2>4 DEF SafetyInv
<1>45. CASE ToolPersist
  <2>1. McpPlaces'
    BY <1>45 DEF ToolPersist, PersistOk, PersistFails, mainVars, svcVars,
        hasToken, SafetyInv, McpPlaces
  <2>2. FormInHand'
    BY <1>45 DEF ToolPersist, PersistOk, PersistFails, mainVars, svcVars,
        SafetyInv, FormInHand, PortalPlaces, McpPlaces, TypeOK, TaskTypeOK,
        ConfigTypeOK
  <2>3. ResetInHand'
    BY <1>45 DEF ToolPersist, PersistOk, PersistFails, mainVars, svcVars,
        SafetyInv, ResetInHand, PortalPlaces, McpPlaces, TypeOK, ConfigTypeOK
  <2>4. AcceptedNetworkDurable'
    BY <1>45 DEF ToolPersist, PersistOk, PersistFails, mainVars, svcVars,
        SafetyInv, AcceptedNetworkDurable
  <2>5. PortalPlaces'
    BY <1>45 DEF ToolPersist, mainVars, svcVars, SafetyInv, PortalPlaces
  <2> QED  BY <2>1, <2>2, <2>3, <2>4, <2>5 DEF SafetyInv
<1>46. CASE LinkLost
  <2>1. PortalPlaces' /\ McpPlaces' /\ FormInHand' /\ ResetInHand' /\ AcceptedNetworkDurable'
    BY <1>46 DEF LinkLost, mainVars, cfgVars, svcVars, history, SafetyInv,
        PortalPlaces, McpPlaces, FormInHand, ResetInHand,
        AcceptedNetworkDurable, hasToken
  <2> QED  BY <2>1 DEF SafetyInv
<1>47. CASE PowerCycle
  <2>1. PortalPlaces'
    BY <1>47 DEF PowerCycle, ClosePortal, Blank, IdlePost, history, SafetyInv,
        PortalPlaces
  <2>2. McpPlaces'
    BY <1>47 DEF PowerCycle, ClosePortal, Blank, IdlePost, history, hasToken,
        SafetyInv, McpPlaces, ConfigTypeOK, Configs, FormInHand, Submissions,
        TaskTypeOK, TypeOK
  <2>3. FormInHand'
    BY <1>47 DEF PowerCycle, ClosePortal, Blank, IdlePost, history, SafetyInv,
        FormInHand, PortalPlaces, McpPlaces, ConfigTypeOK, Configs,
        TaskTypeOK, TypeOK
  <2>4. ResetInHand'
    BY <1>47 DEF PowerCycle, ClosePortal, Blank, IdlePost, history, SafetyInv,
        ResetInHand, PortalPlaces, McpPlaces, ConfigTypeOK, Configs, TypeOK
  <2>5. AcceptedNetworkDurable'
    BY <1>47 DEF PowerCycle, history, SafetyInv, AcceptedNetworkDurable
  <2> QED  BY <2>1, <2>2, <2>3, <2>4, <2>5 DEF SafetyInv
<1>48. CASE UNCHANGED vars
  BY <1>48 DEF vars, mainVars, cfgVars, svcVars, history, SafetyInv,
      PortalPlaces, McpPlaces, FormInHand, ResetInHand,
      AcceptedNetworkDurable, hasToken
<1> QED
  BY <1>1, <1>2, <1>3, <1>4, <1>5, <1>6, <1>7, <1>9, <1>10, <1>11,
     <1>12, <1>13, <1>14, <1>15, <1>16, <1>17, <1>18, <1>19, <1>20, <1>21,
     <1>22, <1>23, <1>24, <1>25, <1>26, <1>27, <1>28, <1>29, <1>30, <1>31,
     <1>32, <1>33, <1>34, <1>35, <1>36, <1>37, <1>38, <1>39, <1>40, <1>41,
     <1>42, <1>43, <1>44, <1>45, <1>46, <1>47, <1>48
     DEF Next, MainStep, MainInit, MainRun, Connect, EnableMcp, Provision, Tick,
         PostStep, ToolStep, Requests

\* The strengthened invariant holds of every behaviour.
THEOREM SafetyCorrect == Spec => []SafetyInv
BY TypeCorrect, SafetyInit, SafetyNext, PTL DEF Spec

\* AppController.PortalAndMcpExclusive: the joins and the order of starts and
\* stops in app_controller.c keep the two servers apart.
THEOREM Exclusive == Spec => []PortalAndMcpExclusive
<1>1. SafetyInv => PortalAndMcpExclusive
  BY DEF SafetyInv, PortalPlaces, McpPlaces, PortalAndMcpExclusive
<1> QED
  BY <1>1, SafetyCorrect, PTL

\* AppController.OneConfigWriter: g_cfg needs no lock, whoever writes it.
THEOREM WritersApart == Spec => []OneConfigWriter
<1>1. SafetyInv => OneConfigWriter
  BY DEF SafetyInv, PortalPlaces, McpPlaces, OneConfigWriter, MainWrites,
         PostWrites, ToolWrites
<1> QED
  BY <1>1, SafetyCorrect, PTL

\* AppController.HaltedServesNothing: app_main never returns with a server up.
THEOREM HaltedIsQuiet == Spec => []HaltedServesNothing
<1>1. SafetyInv => HaltedServesNothing
  BY DEF SafetyInv, PortalPlaces, McpPlaces, HaltedServesNothing
<1> QED
  BY <1>1, SafetyCorrect, PTL

\* AppController.EnabledMeansServing: the flag on the screen is never true
\* without a running server and a token.
THEOREM EnabledIsServing == Spec => []EnabledMeansServing
<1>1. SafetyInv => EnabledMeansServing
  BY DEF SafetyInv, McpPlaces, EnabledMeansServing
<1> QED
  BY <1>1, SafetyCorrect, PTL

\* AppController.AckedResetDurable: what reset_network acknowledged survives any
\* power cycle.
THEOREM ResetIsDurable == Spec => []AckedResetDurable
<1>1. SafetyInv => AckedResetDurable
  BY DEF SafetyInv, ResetInHand, AckedResetDurable
<1> QED
  BY <1>1, SafetyCorrect, PTL

\* AppController.AcceptedNetworkDurable: so does the network of an accepted form.
THEOREM AcceptedIsDurable == Spec => []AcceptedNetworkDurable
<1>1. SafetyInv => AcceptedNetworkDurable
  BY DEF SafetyInv
<1> QED
  BY <1>1, SafetyCorrect, PTL

=============================================================================
