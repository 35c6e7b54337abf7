----------------------- MODULE ServerLifecycleProofs -----------------------
(***************************************************************************)
(* Proofs about ServerLifecycle, for any number of modules, requests and   *)
(* tasks.  The program of each main is a concatenation of lists of steps:  *)
(* the first lemmas say which step is at which place, so that what follows *)
(* can speak of the main goroutine's position as a number.  The invariant  *)
(* then says, for each main, what must hold from one position to another:  *)
(* which servers exist, what requests can be in flight, how many hooks     *)
(* have been called.                                                       *)
(***************************************************************************)
EXTENDS ServerLifecycle, TLAPS, SequenceTheorems

\* Every step of every main.
Steps == {"observability", "database", "initialize", "migrate", "onStart", "listen",
          "startHTTP", "startGRPC", "serve", "stopQueue", "waitQueue", "stopHub", "stopHTTP",
          "drainHTTP", "stopGRPC", "drainGRPC", "onStop", "closeDB", "shutdownObs"}

-----------------------------------------------------------------------------
(* The programs, step by step.                                             *)

(* Concatenation, for sequences of steps of a length that is not spelled out. *)
LEMMA Concat ==
  ASSUME NEW s \in Seq(Steps), NEW t \in Seq(Steps)
  PROVE  /\ s \o t \in Seq(Steps)
         /\ Len(s \o t) = Len(s) + Len(t)
         /\ \A i \in 1..(Len(s) + Len(t)) :
              (s \o t)[i] = IF i <= Len(s) THEN s[i] ELSE t[i - Len(s)]
OBVIOUS

(* What RunServer does, step by step. *)
LEMMA RunServerSteps ==
  /\ RunServer \in Seq(Steps) /\ Len(RunServer) = 13
  /\ RunServer[1] = "onStart" /\ RunServer[2] = "listen" /\ RunServer[3] = "startHTTP"
  /\ RunServer[4] = "startGRPC" /\ RunServer[5] = "serve" /\ RunServer[6] = "stopQueue"
  /\ RunServer[7] = "waitQueue" /\ RunServer[8] = "stopHub" /\ RunServer[9] = "stopHTTP"
  /\ RunServer[10] = "drainHTTP" /\ RunServer[11] = "stopGRPC"
  /\ RunServer[12] = "drainGRPC" /\ RunServer[13] = "onStop"
<1> DEFINE a == <<"onStart">>
           b == <<"serve", "stopQueue", "waitQueue">>
           c == <<"onStop">>
           s1 == a \o AndStartServers
           s2 == s1 \o b
           s3 == s2 \o ShutdownServers
<1>1. /\ a \in Seq(Steps) /\ Len(a) = 1
      /\ a[1] = "onStart"
  BY DEF Steps
<1>2. /\ AndStartServers \in Seq(Steps) /\ Len(AndStartServers) = 3
      /\ AndStartServers[1] = "listen" /\ AndStartServers[2] = "startHTTP"
      /\ AndStartServers[3] = "startGRPC"
  BY DEF Steps, AndStartServers
<1>3. /\ b \in Seq(Steps) /\ Len(b) = 3
      /\ b[1] = "serve" /\ b[2] = "stopQueue" /\ b[3] = "waitQueue"
  BY DEF Steps
<1>4. /\ ShutdownServers \in Seq(Steps) /\ Len(ShutdownServers) = 5
      /\ ShutdownServers[1] = "stopHub" /\ ShutdownServers[2] = "stopHTTP"
      /\ ShutdownServers[3] = "drainHTTP" /\ ShutdownServers[4] = "stopGRPC"
      /\ ShutdownServers[5] = "drainGRPC"
  BY DEF Steps, ShutdownServers
<1>5. /\ c \in Seq(Steps) /\ Len(c) = 1
      /\ c[1] = "onStop"
  BY DEF Steps
<1>6. RunServer = s3 \o c
  BY DEF RunServer
<1> HIDE DEF a, b, c, s1, s2, s3
<1>7. /\ s1 \in Seq(Steps) /\ Len(s1) = 4
      /\ s1[1] = "onStart" /\ s1[2] = "listen" /\ s1[3] = "startHTTP" /\ s1[4] = "startGRPC"
  <2>0. a \in Seq(Steps) /\ AndStartServers \in Seq(Steps)
    BY <1>1, <1>2
  <2>1. /\ s1 \in Seq(Steps) /\ Len(s1) = Len(a) + Len(AndStartServers)
        /\ \A i \in 1..(Len(a) + Len(AndStartServers)) :
              s1[i] = IF i <= Len(a) THEN a[i] ELSE AndStartServers[i - Len(a)]
    BY <2>0, Concat DEF s1
  <2>2. /\ s1 \in Seq(Steps) /\ Len(s1) = 4
        /\ \A i \in 1..4 : s1[i] = IF i <= 1 THEN a[i] ELSE AndStartServers[i - 1]
    BY <1>1, <1>2, <2>1
  <2> QED BY <1>1, <1>2, <2>2
<1>8. /\ s2 \in Seq(Steps) /\ Len(s2) = 7
      /\ s2[1] = "onStart" /\ s2[2] = "listen" /\ s2[3] = "startHTTP" /\ s2[4] = "startGRPC"
      /\ s2[5] = "serve" /\ s2[6] = "stopQueue" /\ s2[7] = "waitQueue"
  <2>0. s1 \in Seq(Steps) /\ b \in Seq(Steps)
    BY <1>7, <1>3
  <2>1. /\ s2 \in Seq(Steps) /\ Len(s2) = Len(s1) + Len(b)
        /\ \A i \in 1..(Len(s1) + Len(b)) :
              s2[i] = IF i <= Len(s1) THEN s1[i] ELSE b[i - Len(s1)]
    BY <2>0, Concat DEF s2
  <2>2. /\ s2 \in Seq(Steps) /\ Len(s2) = 7
        /\ \A i \in 1..7 : s2[i] = IF i <= 4 THEN s1[i] ELSE b[i - 4]
    BY <1>7, <1>3, <2>1
  <2> QED BY <1>7, <1>3, <2>2
<1>9. /\ s3 \in Seq(Steps) /\ Len(s3) = 12
      /\ s3[1] = "onStart" /\ s3[2] = "listen" /\ s3[3] = "startHTTP" /\ s3[4] = "startGRPC"
      /\ s3[5] = "serve" /\ s3[6] = "stopQueue" /\ s3[7] = "waitQueue" /\ s3[8] = "stopHub"
      /\ s3[9] = "stopHTTP" /\ s3[10] = "drainHTTP" /\ s3[11] = "stopGRPC"
      /\ s3[12] = "drainGRPC"
  <2>0. s2 \in Seq(Steps) /\ ShutdownServers \in Seq(Steps)
    BY <1>8, <1>4
  <2>1. /\ s3 \in Seq(Steps) /\ Len(s3) = Len(s2) + Len(ShutdownServers)
        /\ \A i \in 1..(Len(s2) + Len(ShutdownServers)) :
              s3[i] = IF i <= Len(s2) THEN s2[i] ELSE ShutdownServers[i - Len(s2)]
    BY <2>0, Concat DEF s3
  <2>2. /\ s3 \in Seq(Steps) /\ Len(s3) = 12
        /\ \A i \in 1..12 : s3[i] = IF i <= 7 THEN s2[i] ELSE ShutdownServers[i - 7]
    BY <1>8, <1>4, <2>1
  <2> QED BY <1>8, <1>4, <2>2
<1>10. /\ RunServer \in Seq(Steps) /\ Len(RunServer) = 13
      /\ RunServer[1] = "onStart" /\ RunServer[2] = "listen" /\ RunServer[3] = "startHTTP"
      /\ RunServer[4] = "startGRPC" /\ RunServer[5] = "serve" /\ RunServer[6] = "stopQueue"
      /\ RunServer[7] = "waitQueue" /\ RunServer[8] = "stopHub" /\ RunServer[9] = "stopHTTP"
      /\ RunServer[10] = "drainHTTP" /\ RunServer[11] = "stopGRPC"
      /\ RunServer[12] = "drainGRPC" /\ RunServer[13] = "onStop"
  <2>0. s3 \in Seq(Steps) /\ c \in Seq(Steps)
    BY <1>9, <1>5
  <2>1. /\ RunServer \in Seq(Steps) /\ Len(RunServer) = Len(s3) + Len(c)
        /\ \A i \in 1..(Len(s3) + Len(c)) :
              RunServer[i] = IF i <= Len(s3) THEN s3[i] ELSE c[i - Len(s3)]
    BY <2>0, <1>6, Concat
  <2>2. /\ RunServer \in Seq(Steps) /\ Len(RunServer) = 13
        /\ \A i \in 1..13 : RunServer[i] = IF i <= 12 THEN s3[i] ELSE c[i - 12]
    BY <1>9, <1>5, <2>1
  <2> QED BY <1>9, <1>5, <2>2
<1> QED BY <1>10

(* What cmd/server does, step by step. *)
LEMMA ServerSteps ==
  /\ Program["server"] \in Seq(Steps) /\ Len(Program["server"]) = 19
  /\ Program["server"][1] = "observability" /\ Program["server"][2] = "database"
  /\ Program["server"][3] = "initialize" /\ Program["server"][4] = "migrate"
  /\ Program["server"][5] = "onStart" /\ Program["server"][6] = "listen"
  /\ Program["server"][7] = "startHTTP" /\ Program["server"][8] = "startGRPC"
  /\ Program["server"][9] = "serve" /\ Program["server"][10] = "stopQueue"
  /\ Program["server"][11] = "waitQueue" /\ Program["server"][12] = "stopHub"
  /\ Program["server"][13] = "stopHTTP" /\ Program["server"][14] = "drainHTTP"
  /\ Program["server"][15] = "stopGRPC" /\ Program["server"][16] = "drainGRPC"
  /\ Program["server"][17] = "onStop" /\ Program["server"][18] = "closeDB"
  /\ Program["server"][19] = "shutdownObs"
<1> DEFINE a == <<"initialize", "migrate">>
           b == <<"closeDB", "shutdownObs">>
           s1 == InitializeServices \o a
           s2 == s1 \o RunServer
<1>1. /\ InitializeServices \in Seq(Steps) /\ Len(InitializeServices) = 2
      /\ InitializeServices[1] = "observability" /\ InitializeServices[2] = "database"
  BY DEF Steps, InitializeServices
<1>2. /\ a \in Seq(Steps) /\ Len(a) = 2
      /\ a[1] = "initialize" /\ a[2] = "migrate"
  BY DEF Steps
<1>3. /\ b \in Seq(Steps) /\ Len(b) = 2
      /\ b[1] = "closeDB" /\ b[2] = "shutdownObs"
  BY DEF Steps
<1>4. Program["server"] = s2 \o b
  BY DEF Program, ServerMain, HandleSpecialFlags
<1> HIDE DEF a, b, s1, s2
<1>5. /\ s1 \in Seq(Steps) /\ Len(s1) = 4
      /\ s1[1] = "observability" /\ s1[2] = "database" /\ s1[3] = "initialize"
      /\ s1[4] = "migrate"
  <2>0. InitializeServices \in Seq(Steps) /\ a \in Seq(Steps)
    BY <1>1, <1>2
  <2>1. /\ s1 \in Seq(Steps) /\ Len(s1) = Len(InitializeServices) + Len(a)
        /\ \A i \in 1..(Len(InitializeServices) + Len(a)) :
              s1[i] = IF i <= Len(InitializeServices) THEN InitializeServices[i]
                      ELSE a[i - Len(InitializeServices)]
    BY <2>0, Concat DEF s1
  <2>2. /\ s1 \in Seq(Steps) /\ Len(s1) = 4
        /\ \A i \in 1..4 : s1[i] = IF i <= 2 THEN InitializeServices[i] ELSE a[i - 2]
    BY <1>1, <1>2, <2>1
  <2> QED BY <1>1, <1>2, <2>2
<1>6. /\ s2 \in Seq(Steps) /\ Len(s2) = 17
      /\ s2[1] = "observability" /\ s2[2] = "database" /\ s2[3] = "initialize"
      /\ s2[4] = "migrate" /\ s2[5] = "onStart" /\ s2[6] = "listen" /\ s2[7] = "startHTTP"
      /\ s2[8] = "startGRPC" /\ s2[9] = "serve" /\ s2[10] = "stopQueue"
      /\ s2[11] = "waitQueue" /\ s2[12] = "stopHub" /\ s2[13] = "stopHTTP"
      /\ s2[14] = "drainHTTP" /\ s2[15] = "stopGRPC" /\ s2[16] = "drainGRPC"
      /\ s2[17] = "onStop"
  <2>0. s1 \in Seq(Steps) /\ RunServer \in Seq(Steps)
    BY <1>5, RunServerSteps
  <2>1. /\ s2 \in Seq(Steps) /\ Len(s2) = Len(s1) + Len(RunServer)
        /\ \A i \in 1..(Len(s1) + Len(RunServer)) :
              s2[i] = IF i <= Len(s1) THEN s1[i] ELSE RunServer[i - Len(s1)]
    BY <2>0, Concat DEF s2
  <2>2. /\ s2 \in Seq(Steps) /\ Len(s2) = 17
        /\ \A i \in 1..17 : s2[i] = IF i <= 4 THEN s1[i] ELSE RunServer[i - 4]
    BY <1>5, RunServerSteps, <2>1
  <2> QED BY <1>5, RunServerSteps, <2>2
<1>7. /\ Program["server"] \in Seq(Steps) /\ Len(Program["server"]) = 19
      /\ Program["server"][1] = "observability" /\ Program["server"][2] = "database"
      /\ Program["server"][3] = "initialize" /\ Program["server"][4] = "migrate"
      /\ Program["server"][5] = "onStart" /\ Program["server"][6] = "listen"
      /\ Program["server"][7] = "startHTTP" /\ Program["server"][8] = "startGRPC"
      /\ Program["server"][9] = "serve" /\ Program["server"][10] = "stopQueue"
      /\ Program["server"][11] = "waitQueue" /\ Program["server"][12] = "stopHub"
      /\ Program["server"][13] = "stopHTTP" /\ Program["server"][14] = "drainHTTP"
      /\ Program["server"][15] = "stopGRPC" /\ Program["server"][16] = "drainGRPC"
      /\ Program["server"][17] = "onStop" /\ Program["server"][18] = "closeDB"
      /\ Program["server"][19] = "shutdownObs"
  <2>0. s2 \in Seq(Steps) /\ b \in Seq(Steps)
    BY <1>6, <1>3
  <2>1. /\ Program["server"] \in Seq(Steps) /\ Len(Program["server"]) = Len(s2) + Len(b)
        /\ \A i \in 1..(Len(s2) + Len(b)) :
              Program["server"][i] = IF i <= Len(s2) THEN s2[i] ELSE b[i - Len(s2)]
    BY <2>0, <1>4, Concat
  <2>2. /\ Program["server"] \in Seq(Steps) /\ Len(Program["server"]) = 19
        /\ \A i \in 1..19 : Program["server"][i] = IF i <= 17 THEN s2[i] ELSE b[i - 17]
    BY <1>6, <1>3, <2>1
  <2> QED BY <1>6, <1>3, <2>2
<1> QED BY <1>7

(* What cmd/server does when it only migrates or seeds. *)
LEMMA MigrateSteps ==
  /\ Program["migrate"] \in Seq(Steps) /\ Len(Program["migrate"]) = 6
  /\ Program["migrate"][1] = "observability" /\ Program["migrate"][2] = "database"
  /\ Program["migrate"][3] = "initialize" /\ Program["migrate"][4] = "migrate"
  /\ Program["migrate"][5] = "closeDB" /\ Program["migrate"][6] = "shutdownObs"
<1> DEFINE a == <<"initialize", "migrate">>
           n == <<>>
           b == <<"closeDB", "shutdownObs">>
           s1 == InitializeServices \o a
           s2 == s1 \o n
<1>1. /\ InitializeServices \in Seq(Steps) /\ Len(InitializeServices) = 2
      /\ InitializeServices[1] = "observability" /\ InitializeServices[2] = "database"
  BY DEF Steps, InitializeServices
<1>2. /\ a \in Seq(Steps) /\ Len(a) = 2
      /\ a[1] = "initialize" /\ a[2] = "migrate"
  BY DEF Steps
<1>3. /\ n \in Seq(Steps) /\ Len(n) = 0
  BY DEF Steps
<1>4. /\ b \in Seq(Steps) /\ Len(b) = 2
      /\ b[1] = "closeDB" /\ b[2] = "shutdownObs"
  BY DEF Steps
<1>5. Program["migrate"] = s2 \o b
  BY DEF Program, ServerMain, HandleSpecialFlags
<1> HIDE DEF a, n, b, s1, s2
<1>6. /\ s1 \in Seq(Steps) /\ Len(s1) = 4
      /\ s1[1] = "observability" /\ s1[2] = "database" /\ s1[3] = "initialize"
      /\ s1[4] = "migrate"
  <2>0. InitializeServices \in Seq(Steps) /\ a \in Seq(Steps)
    BY <1>1, <1>2
  <2>1. /\ s1 \in Seq(Steps) /\ Len(s1) = Len(InitializeServices) + Len(a)
        /\ \A i \in 1..(Len(InitializeServices) + Len(a)) :
              s1[i] = IF i <= Len(InitializeServices) THEN InitializeServices[i]
                      ELSE a[i - Len(InitializeServices)]
    BY <2>0, Concat DEF s1
  <2>2. /\ s1 \in Seq(Steps) /\ Len(s1) = 4
        /\ \A i \in 1..4 : s1[i] = IF i <= 2 THEN InitializeServices[i] ELSE a[i - 2]
    BY <1>1, <1>2, <2>1
  <2> QED BY <1>1, <1>2, <2>2
<1>7. /\ s2 \in Seq(Steps) /\ Len(s2) = 4
      /\ s2[1] = "observability" /\ s2[2] = "database" /\ s2[3] = "initialize"
      /\ s2[4] = "migrate"
  <2>0. s1 \in Seq(Steps) /\ n \in Seq(Steps)
    BY <1>6, <1>3
  <2>1. /\ s2 \in Seq(Steps) /\ Len(s2) = Len(s1) + Len(n)
        /\ \A i \in 1..(Len(s1) + Len(n)) :
              s2[i] = IF i <= Len(s1) THEN s1[i] ELSE n[i - Len(s1)]
    BY <2>0, Concat DEF s2
  <2>2. /\ s2 \in Seq(Steps) /\ Len(s2) = 4
        /\ \A i \in 1..4 : s2[i] = IF i <= 4 THEN s1[i] ELSE n[i - 4]
    BY <1>6, <1>3, <2>1
  <2> QED BY <1>6, <1>3, <2>2
<1>8. /\ Program["migrate"] \in Seq(Steps) /\ Len(Program["migrate"]) = 6
      /\ Program["migrate"][1] = "observability" /\ Program["migrate"][2] = "database"
      /\ Program["migrate"][3] = "initialize" /\ Program["migrate"][4] = "migrate"
      /\ Program["migrate"][5] = "closeDB" /\ Program["migrate"][6] = "shutdownObs"
  <2>0. s2 \in Seq(Steps) /\ b \in Seq(Steps)
    BY <1>7, <1>4
  <2>1. /\ Program["migrate"] \in Seq(Steps) /\ Len(Program["migrate"]) = Len(s2) + Len(b)
        /\ \A i \in 1..(Len(s2) + Len(b)) :
              Program["migrate"][i] = IF i <= Len(s2) THEN s2[i] ELSE b[i - Len(s2)]
    BY <2>0, <1>5, Concat
  <2>2. /\ Program["migrate"] \in Seq(Steps) /\ Len(Program["migrate"]) = 6
        /\ \A i \in 1..6 : Program["migrate"][i] = IF i <= 4 THEN s2[i] ELSE b[i - 4]
    BY <1>7, <1>4, <2>1
  <2> QED BY <1>7, <1>4, <2>2
<1> QED BY <1>8

(* What cmd/worker does, step by step. *)
LEMMA WorkerSteps ==
  /\ Program["worker"] \in Seq(Steps) /\ Len(Program["worker"]) = 7
  /\ Program["worker"][1] = "database" /\ Program["worker"][2] = "initialize"
  /\ Program["worker"][3] = "migrate" /\ Program["worker"][4] = "onStart"
  /\ Program["worker"][5] = "serve" /\ Program["worker"][6] = "onStop"
  /\ Program["worker"][7] = "closeDB"
<1> DEFINE a == <<"database", "initialize", "migrate">>
           b == <<"closeDB">>
           s1 == a \o RunWorker
<1>1. /\ a \in Seq(Steps) /\ Len(a) = 3
      /\ a[1] = "database" /\ a[2] = "initialize" /\ a[3] = "migrate"
  BY DEF Steps
<1>2. /\ RunWorker \in Seq(Steps) /\ Len(RunWorker) = 3
      /\ RunWorker[1] = "onStart" /\ RunWorker[2] = "serve" /\ RunWorker[3] = "onStop"
  BY DEF Steps, RunWorker
<1>3. /\ b \in Seq(Steps) /\ Len(b) = 1
      /\ b[1] = "closeDB"
  BY DEF Steps
<1>4. Program["worker"] = s1 \o b
  BY DEF Program, WorkerMain
<1> HIDE DEF a, b, s1
<1>5. /\ s1 \in Seq(Steps) /\ Len(s1) = 6
      /\ s1[1] = "database" /\ s1[2] = "initialize" /\ s1[3] = "migrate"
      /\ s1[4] = "onStart" /\ s1[5] = "serve" /\ s1[6] = "onStop"
  <2>0. a \in Seq(Steps) /\ RunWorker \in Seq(Steps)
    BY <1>1, <1>2
  <2>1. /\ s1 \in Seq(Steps) /\ Len(s1) = Len(a) + Len(RunWorker)
        /\ \A i \in 1..(Len(a) + Len(RunWorker)) :
              s1[i] = IF i <= Len(a) THEN a[i] ELSE RunWorker[i - Len(a)]
    BY <2>0, Concat DEF s1
  <2>2. /\ s1 \in Seq(Steps) /\ Len(s1) = 6
        /\ \A i \in 1..6 : s1[i] = IF i <= 3 THEN a[i] ELSE RunWorker[i - 3]
    BY <1>1, <1>2, <2>1
  <2> QED BY <1>1, <1>2, <2>2
<1>6. /\ Program["worker"] \in Seq(Steps) /\ Len(Program["worker"]) = 7
      /\ Program["worker"][1] = "database" /\ Program["worker"][2] = "initialize"
      /\ Program["worker"][3] = "migrate" /\ Program["worker"][4] = "onStart"
      /\ Program["worker"][5] = "serve" /\ Program["worker"][6] = "onStop"
      /\ Program["worker"][7] = "closeDB"
  <2>0. s1 \in Seq(Steps) /\ b \in Seq(Steps)
    BY <1>5, <1>3
  <2>1. /\ Program["worker"] \in Seq(Steps) /\ Len(Program["worker"]) = Len(s1) + Len(b)
        /\ \A i \in 1..(Len(s1) + Len(b)) :
              Program["worker"][i] = IF i <= Len(s1) THEN s1[i] ELSE b[i - Len(s1)]
    BY <2>0, <1>4, Concat
  <2>2. /\ Program["worker"] \in Seq(Steps) /\ Len(Program["worker"]) = 7
        /\ \A i \in 1..7 : Program["worker"][i] = IF i <= 6 THEN s1[i] ELSE b[i - 6]
    BY <1>5, <1>3, <2>1
  <2> QED BY <1>5, <1>3, <2>2
<1> QED BY <1>6

(* What cmd/auth does, step by step. *)
LEMMA AuthSteps ==
  /\ Program["auth"] \in Seq(Steps) /\ Len(Program["auth"]) = 14
  /\ Program["auth"][1] = "observability" /\ Program["auth"][2] = "database"
  /\ Program["auth"][3] = "migrate" /\ Program["auth"][4] = "startHTTP"
  /\ Program["auth"][5] = "listen" /\ Program["auth"][6] = "initialize"
  /\ Program["auth"][7] = "startGRPC" /\ Program["auth"][8] = "serve"
  /\ Program["auth"][9] = "stopHTTP" /\ Program["auth"][10] = "drainHTTP"
  /\ Program["auth"][11] = "stopGRPC" /\ Program["auth"][12] = "drainGRPC"
  /\ Program["auth"][13] = "shutdownObs" /\ Program["auth"][14] = "closeDB"
<1> DEFINE a == <<"observability", "database", "migrate">>
           b == <<"serve">>
           c == <<"closeDB">>
           s1 == a \o SetupAndStartServersAuth
           s2 == s1 \o b
           s3 == s2 \o ShutdownServersAuth
<1>1. /\ a \in Seq(Steps) /\ Len(a) = 3
      /\ a[1] = "observability" /\ a[2] = "database" /\ a[3] = "migrate"
  BY DEF Steps
<1>2. /\ SetupAndStartServersAuth \in Seq(Steps) /\ Len(SetupAndStartServersAuth) = 4
      /\ SetupAndStartServersAuth[1] = "startHTTP" /\ SetupAndStartServersAuth[2] = "listen"
      /\ SetupAndStartServersAuth[3] = "initialize"
      /\ SetupAndStartServersAuth[4] = "startGRPC"
  BY DEF Steps, SetupAndStartServersAuth
<1>3. /\ b \in Seq(Steps) /\ Len(b) = 1
      /\ b[1] = "serve"
  BY DEF Steps
<1>4. /\ ShutdownServersAuth \in Seq(Steps) /\ Len(ShutdownServersAuth) = 5
      /\ ShutdownServersAuth[1] = "stopHTTP" /\ ShutdownServersAuth[2] = "drainHTTP"
      /\ ShutdownServersAuth[3] = "stopGRPC" /\ ShutdownServersAuth[4] = "drainGRPC"
      /\ ShutdownServersAuth[5] = "shutdownObs"
  BY DEF Steps, ShutdownServersAuth
<1>5. /\ c \in Seq(Steps) /\ Len(c) = 1
      /\ c[1] = "closeDB"
  BY DEF Steps
<1>6. Program["auth"] = s3 \o c
  BY DEF Program, AuthMain
<1> HIDE DEF a, b, c, s1, s2, s3
<1>7. /\ s1 \in Seq(Steps) /\ Len(s1) = 7
      /\ s1[1] = "observability" /\ s1[2] = "database" /\ s1[3] = "migrate"
      /\ s1[4] = "startHTTP" /\ s1[5] = "listen" /\ s1[6] = "initialize"
      /\ s1[7] = "startGRPC"
  <2>0. a \in Seq(Steps) /\ SetupAndStartServersAuth \in Seq(Steps)
    BY <1>1, <1>2
  <2>1. /\ s1 \in Seq(Steps) /\ Len(s1) = Len(a) + Len(SetupAndStartServersAuth)
        /\ \A i \in 1..(Len(a) + Len(SetupAndStartServersAuth)) :
              s1[i] = IF i <= Len(a) THEN a[i] ELSE SetupAndStartServersAuth[i - Len(a)]
    BY <2>0, Concat DEF s1
  <2>2. /\ s1 \in Seq(Steps) /\ Len(s1) = 7
        /\ \A i \in 1..7 : s1[i] = IF i <= 3 THEN a[i] ELSE SetupAndStartServersAuth[i - 3]
    BY <1>1, <1>2, <2>1
  <2> QED BY <1>1, <1>2, <2>2
<1>8. /\ s2 \in Seq(Steps) /\ Len(s2) = 8
      /\ s2[1] = "observability" /\ s2[2] = "database" /\ s2[3] = "migrate"
      /\ s2[4] = "startHTTP" /\ s2[5] = "listen" /\ s2[6] = "initialize"
      /\ s2[7] = "startGRPC" /\ s2[8] = "serve"
  <2>0. s1 \in Seq(Steps) /\ b \in Seq(Steps)
    BY <1>7, <1>3
  <2>1. /\ s2 \in Seq(Steps) /\ Len(s2) = Len(s1) + Len(b)
        /\ \A i \in 1..(Len(s1) + Len(b)) :
              s2[i] = IF i <= Len(s1) THEN s1[i] ELSE b[i - Len(s1)]
    BY <2>0, Concat DEF s2
  <2>2. /\ s2 \in Seq(Steps) /\ Len(s2) = 8
        /\ \A i \in 1..8 : s2[i] = IF i <= 7 THEN s1[i] ELSE b[i - 7]
    BY <1>7, <1>3, <2>1
  <2> QED BY <1>7, <1>3, <2>2
<1>9. /\ s3 \in Seq(Steps) /\ Len(s3) = 13
      /\ s3[1] = "observability" /\ s3[2] = "database" /\ s3[3] = "migrate"
      /\ s3[4] = "startHTTP" /\ s3[5] = "listen" /\ s3[6] = "initialize"
      /\ s3[7] = "startGRPC" /\ s3[8] = "serve" /\ s3[9] = "stopHTTP"
      /\ s3[10] = "drainHTTP" /\ s3[11] = "stopGRPC" /\ s3[12] = "drainGRPC"
      /\ s3[13] = "shutdownObs"
  <2>0. s2 \in Seq(Steps) /\ ShutdownServersAuth \in Seq(Steps)
    BY <1>8, <1>4
  <2>1. /\ s3 \in Seq(Steps) /\ Len(s3) = Len(s2) + Len(ShutdownServersAuth)
        /\ \A i \in 1..(Len(s2) + Len(ShutdownServersAuth)) :
              s3[i] = IF i <= Len(s2) THEN s2[i] ELSE ShutdownServersAuth[i - Len(s2)]
    BY <2>0, Concat DEF s3
  <2>2. /\ s3 \in Seq(Steps) /\ Len(s3) = 13
        /\ \A i \in 1..13 : s3[i] = IF i <= 8 THEN s2[i] ELSE ShutdownServersAuth[i - 8]
    BY <1>8, <1>4, <2>1
  <2> QED BY <1>8, <1>4, <2>2
<1>10. /\ Program["auth"] \in Seq(Steps) /\ Len(Program["auth"]) = 14
      /\ Program["auth"][1] = "observability" /\ Program["auth"][2] = "database"
      /\ Program["auth"][3] = "migrate" /\ Program["auth"][4] = "startHTTP"
      /\ Program["auth"][5] = "listen" /\ Program["auth"][6] = "initialize"
      /\ Program["auth"][7] = "startGRPC" /\ Program["auth"][8] = "serve"
      /\ Program["auth"][9] = "stopHTTP" /\ Program["auth"][10] = "drainHTTP"
      /\ Program["auth"][11] = "stopGRPC" /\ Program["auth"][12] = "drainGRPC"
      /\ Program["auth"][13] = "shutdownObs" /\ Program["auth"][14] = "closeDB"
  <2>0. s3 \in Seq(Steps) /\ c \in Seq(Steps)
    BY <1>9, <1>5
  <2>1. /\ Program["auth"] \in Seq(Steps) /\ Len(Program["auth"]) = Len(s3) + Len(c)
        /\ \A i \in 1..(Len(s3) + Len(c)) :
              Program["auth"][i] = IF i <= Len(s3) THEN s3[i] ELSE c[i - Len(s3)]
    BY <2>0, <1>6, Concat
  <2>2. /\ Program["auth"] \in Seq(Steps) /\ Len(Program["auth"]) = 14
        /\ \A i \in 1..14 : Program["auth"][i] = IF i <= 13 THEN s3[i] ELSE c[i - 13]
    BY <1>9, <1>5, <2>1
  <2> QED BY <1>9, <1>5, <2>2
<1> QED BY <1>10

(* Every step of cmd/server is at one place. *)
LEMMA ServerIndex ==
  ASSUME NEW n \in 1..19
  PROVE  /\ Program["server"][n] = "observability" <=> n = 1
         /\ Program["server"][n] = "database" <=> n = 2
         /\ Program["server"][n] = "initialize" <=> n = 3
         /\ Program["server"][n] = "migrate" <=> n = 4
         /\ Program["server"][n] = "onStart" <=> n = 5
         /\ Program["server"][n] = "listen" <=> n = 6
         /\ Program["server"][n] = "startHTTP" <=> n = 7
         /\ Program["server"][n] = "startGRPC" <=> n = 8
         /\ Program["server"][n] = "serve" <=> n = 9
         /\ Program["server"][n] = "stopQueue" <=> n = 10
         /\ Program["server"][n] = "waitQueue" <=> n = 11
         /\ Program["server"][n] = "stopHub" <=> n = 12
         /\ Program["server"][n] = "stopHTTP" <=> n = 13
         /\ Program["server"][n] = "drainHTTP" <=> n = 14
         /\ Program["server"][n] = "stopGRPC" <=> n = 15
         /\ Program["server"][n] = "drainGRPC" <=> n = 16
         /\ Program["server"][n] = "onStop" <=> n = 17
         /\ Program["server"][n] = "closeDB" <=> n = 18
         /\ Program["server"][n] = "shutdownObs" <=> n = 19
<1>1. CASE n = 1
  <2>1. Program["server"][n] = "observability"
    BY ServerSteps, <1>1
  <2> QED BY <1>1, <2>1
<1>2. CASE n = 2
  <2>1. Program["server"][n] = "database"
    BY ServerSteps, <1>2
  <2> QED BY <1>2, <2>1
<1>3. CASE n = 3
  <2>1. Program["server"][n] = "initialize"
    BY ServerSteps, <1>3
  <2> QED BY <1>3, <2>1
<1>4. CASE n = 4
  <2>1. Program["server"][n] = "migrate"
    BY ServerSteps, <1>4
  <2> QED BY <1>4, <2>1
<1>5. CASE n = 5
  <2>1. Program["server"][n] = "onStart"
    BY ServerSteps, <1>5
  <2> QED BY <1>5, <2>1
<1>6. CASE n = 6
  <2>1. Program["server"][n] = "listen"
    BY ServerSteps, <1>6
  <2> QED BY <1>6, <2>1
<1>7. CASE n = 7
  <2>1. Program["server"][n] = "startHTTP"
    BY ServerSteps, <1>7
  <2> QED BY <1>7, <2>1
<1>8. CASE n = 8
  <2>1. Program["server"][n] = "startGRPC"
    BY ServerSteps, <1>8
  <2> QED BY <1>8, <2>1
<1>9. CASE n = 9
  <2>1. Program["server"][n] = "serve"
    BY ServerSteps, <1>9
  <2> QED BY <1>9, <2>1
<1>10. CASE n = 10
  <2>1. Program["server"][n] = "stopQueue"
    BY ServerSteps, <1>10
  <2> QED BY <1>10, <2>1
<1>11. CASE n = 11
  <2>1. Program["server"][n] = "waitQueue"
    BY ServerSteps, <1>11
  <2> QED BY <1>11, <2>1
<1>12. CASE n = 12
  <2>1. Program["server"][n] = "stopHub"
    BY ServerSteps, <1>12
  <2> QED BY <1>12, <2>1
<1>13. CASE n = 13
  <2>1. Program["server"][n] = "stopHTTP"
    BY ServerSteps, <1>13
  <2> QED BY <1>13, <2>1
<1>14. CASE n = 14
  <2>1. Program["server"][n] = "drainHTTP"
    BY ServerSteps, <1>14
  <2> QED BY <1>14, <2>1
<1>15. CASE n = 15
  <2>1. Program["server"][n] = "stopGRPC"
    BY ServerSteps, <1>15
  <2> QED BY <1>15, <2>1
<1>16. CASE n = 16
  <2>1. Program["server"][n] = "drainGRPC"
    BY ServerSteps, <1>16
  <2> QED BY <1>16, <2>1
<1>17. CASE n = 17
  <2>1. Program["server"][n] = "onStop"
    BY ServerSteps, <1>17
  <2> QED BY <1>17, <2>1
<1>18. CASE n = 18
  <2>1. Program["server"][n] = "closeDB"
    BY ServerSteps, <1>18
  <2> QED BY <1>18, <2>1
<1>19. CASE n = 19
  <2>1. Program["server"][n] = "shutdownObs"
    BY ServerSteps, <1>19
  <2> QED BY <1>19, <2>1
<1>20. n = 1 \/ n = 2 \/ n = 3 \/ n = 4 \/ n = 5 \/ n = 6 \/ n = 7 \/ n = 8 \/ n
            = 9 \/ n = 10 \/ n = 11 \/ n = 12 \/ n = 13 \/ n = 14 \/ n = 15 \/ n = 16
            \/ n = 17 \/ n = 18 \/ n = 19
  OBVIOUS
<1> QED BY <1>1, <1>2, <1>3, <1>4, <1>5, <1>6, <1>7, <1>8, <1>9, <1>10, <1>11, <1>12,
          <1>13, <1>14, <1>15, <1>16, <1>17, <1>18, <1>19, <1>20

(* Where cmd/server is when it is at a step. *)
LEMMA ServerPlaces ==
  ASSUME binary = "server", at \in Nat \ {0}
  PROVE  /\ Exited <=> at > 19
         /\ At("observability") <=> at = 1
         /\ At("database") <=> at = 2
         /\ At("initialize") <=> at = 3
         /\ At("migrate") <=> at = 4
         /\ At("onStart") <=> at = 5
         /\ At("listen") <=> at = 6
         /\ At("startHTTP") <=> at = 7
         /\ At("startGRPC") <=> at = 8
         /\ At("serve") <=> at = 9
         /\ At("stopQueue") <=> at = 10
         /\ At("waitQueue") <=> at = 11
         /\ At("stopHub") <=> at = 12
         /\ At("stopHTTP") <=> at = 13
         /\ At("drainHTTP") <=> at = 14
         /\ At("stopGRPC") <=> at = 15
         /\ At("drainGRPC") <=> at = 16
         /\ At("onStop") <=> at = 17
         /\ At("closeDB") <=> at = 18
         /\ At("shutdownObs") <=> at = 19
<1>1. Exited <=> at > 19
  BY ServerSteps DEF Exited
<1>2. CASE at > 19
  BY <1>1, <1>2 DEF At
<1>3. CASE at \in 1..19
  BY <1>1, <1>3, ServerIndex DEF At
<1> QED BY <1>2, <1>3

(* Every step of the migrating cmd/server is at one place. *)
LEMMA MigrateIndex ==
  ASSUME NEW n \in 1..6
  PROVE  /\ Program["migrate"][n] = "observability" <=> n = 1
         /\ Program["migrate"][n] = "database" <=> n = 2
         /\ Program["migrate"][n] = "initialize" <=> n = 3
         /\ Program["migrate"][n] = "migrate" <=> n = 4
         /\ Program["migrate"][n] # "onStart"
         /\ Program["migrate"][n] # "listen"
         /\ Program["migrate"][n] # "startHTTP"
         /\ Program["migrate"][n] # "startGRPC"
         /\ Program["migrate"][n] # "serve"
         /\ Program["migrate"][n] # "stopQueue"
         /\ Program["migrate"][n] # "waitQueue"
         /\ Program["migrate"][n] # "stopHub"
         /\ Program["migrate"][n] # "stopHTTP"
         /\ Program["migrate"][n] # "drainHTTP"
         /\ Program["migrate"][n] # "stopGRPC"
         /\ Program["migrate"][n] # "drainGRPC"
         /\ Program["migrate"][n] # "onStop"
         /\ Program["migrate"][n] = "closeDB" <=> n = 5
         /\ Program["migrate"][n] = "shutdownObs" <=> n = 6
<1>1. CASE n = 1
  <2>1. Program["migrate"][n] = "observability"
    BY MigrateSteps, <1>1
  <2> QED BY <1>1, <2>1
<1>2. CASE n = 2
  <2>1. Program["migrate"][n] = "database"
    BY MigrateSteps, <1>2
  <2> QED BY <1>2, <2>1
<1>3. CASE n = 3
  <2>1. Program["migrate"][n] = "initialize"
    BY MigrateSteps, <1>3
  <2> QED BY <1>3, <2>1
<1>4. CASE n = 4
  <2>1. Program["migrate"][n] = "migrate"
    BY MigrateSteps, <1>4
  <2> QED BY <1>4, <2>1
<1>5. CASE n = 5
  <2>1. Program["migrate"][n] = "closeDB"
    BY MigrateSteps, <1>5
  <2> QED BY <1>5, <2>1
<1>6. CASE n = 6
  <2>1. Program["migrate"][n] = "shutdownObs"
    BY MigrateSteps, <1>6
  <2> QED BY <1>6, <2>1
<1>7. n = 1 \/ n = 2 \/ n = 3 \/ n = 4 \/ n = 5 \/ n = 6
  OBVIOUS
<1> QED BY <1>1, <1>2, <1>3, <1>4, <1>5, <1>6, <1>7

(* Where the migrating cmd/server is when it is at a step. *)
LEMMA MigratePlaces ==
  ASSUME binary = "migrate", at \in Nat \ {0}
  PROVE  /\ Exited <=> at > 6
         /\ At("observability") <=> at = 1
         /\ At("database") <=> at = 2
         /\ At("initialize") <=> at = 3
         /\ At("migrate") <=> at = 4
         /\ ~ At("onStart")
         /\ ~ At("listen")
         /\ ~ At("startHTTP")
         /\ ~ At("startGRPC")
         /\ ~ At("serve")
         /\ ~ At("stopQueue")
         /\ ~ At("waitQueue")
         /\ ~ At("stopHub")
         /\ ~ At("stopHTTP")
         /\ ~ At("drainHTTP")
         /\ ~ At("stopGRPC")
         /\ ~ At("drainGRPC")
         /\ ~ At("onStop")
         /\ At("closeDB") <=> at = 5
         /\ At("shutdownObs") <=> at = 6
<1>1. Exited <=> at > 6
  BY MigrateSteps DEF Exited
<1>2. CASE at > 6
  BY <1>1, <1>2 DEF At
<1>3. CASE at \in 1..6
  BY <1>1, <1>3, MigrateIndex DEF At
<1> QED BY <1>2, <1>3

(* Every step of cmd/worker is at one place. *)
LEMMA WorkerIndex ==
  ASSUME NEW n \in 1..7
  PROVE  /\ Program["worker"][n] # "observability"
         /\ Program["worker"][n] = "database" <=> n = 1
         /\ Program["worker"][n] = "initialize" <=> n = 2
         /\ Program["worker"][n] = "migrate" <=> n = 3
         /\ Program["worker"][n] = "onStart" <=> n = 4
         /\ Program["worker"][n] # "listen"
         /\ Program["worker"][n] # "startHTTP"
         /\ Program["worker"][n] # "startGRPC"
         /\ Program["worker"][n] = "serve" <=> n = 5
         /\ Program["worker"][n] # "stopQueue"
         /\ Program["worker"][n] # "waitQueue"
         /\ Program["worker"][n] # "stopHub"
         /\ Program["worker"][n] # "stopHTTP"
         /\ Program["worker"][n] # "drainHTTP"
         /\ Program["worker"][n] # "stopGRPC"
         /\ Program["worker"][n] # "drainGRPC"
         /\ Program["worker"][n] = "onStop" <=> n = 6
         /\ Program["worker"][n] = "closeDB" <=> n = 7
         /\ Program["worker"][n] # "shutdownObs"
<1>1. CASE n = 1
  <2>1. Program["worker"][n] = "database"
    BY WorkerSteps, <1>1
  <2> QED BY <1>1, <2>1
<1>2. CASE n = 2
  <2>1. Program["worker"][n] = "initialize"
    BY WorkerSteps, <1>2
  <2> QED BY <1>2, <2>1
<1>3. CASE n = 3
  <2>1. Program["worker"][n] = "migrate"
    BY WorkerSteps, <1>3
  <2> QED BY <1>3, <2>1
<1>4. CASE n = 4
  <2>1. Program["worker"][n] = "onStart"
    BY WorkerSteps, <1>4
  <2> QED BY <1>4, <2>1
<1>5. CASE n = 5
  <2>1. Program["worker"][n] = "serve"
    BY WorkerSteps, <1>5
  <2> QED BY <1>5, <2>1
<1>6. CASE n = 6
  <2>1. Program["worker"][n] = "onStop"
    BY WorkerSteps, <1>6
  <2> QED BY <1>6, <2>1
<1>7. CASE n = 7
  <2>1. Program["worker"][n] = "closeDB"
    BY WorkerSteps, <1>7
  <2> QED BY <1>7, <2>1
<1>8. n = 1 \/ n = 2 \/ n = 3 \/ n = 4 \/ n = 5 \/ n = 6 \/ n = 7
  OBVIOUS
<1> QED BY <1>1, <1>2, <1>3, <1>4, <1>5, <1>6, <1>7, <1>8

(* Where cmd/worker is when it is at a step. *)
LEMMA WorkerPlaces ==
  ASSUME binary = "worker", at \in Nat \ {0}
  PROVE  /\ Exited <=> at > 7
         /\ ~ At("observability")
         /\ At("database") <=> at = 1
         /\ At("initialize") <=> at = 2
         /\ At("migrate") <=> at = 3
         /\ At("onStart") <=> at = 4
         /\ ~ At("listen")
         /\ ~ At("startHTTP")
         /\ ~ At("startGRPC")
         /\ At("serve") <=> at = 5
         /\ ~ At("stopQueue")
         /\ ~ At("waitQueue")
         /\ ~ At("stopHub")
         /\ ~ At("stopHTTP")
         /\ ~ At("drainHTTP")
         /\ ~ At("stopGRPC")
         /\ ~ At("drainGRPC")
         /\ At("onStop") <=> at = 6
         /\ At("closeDB") <=> at = 7
         /\ ~ At("shutdownObs")
<1>1. Exited <=> at > 7
  BY WorkerSteps DEF Exited
<1>2. CASE at > 7
  BY <1>1, <1>2 DEF At
<1>3. CASE at \in 1..7
  BY <1>1, <1>3, WorkerIndex DEF At
<1> QED BY <1>2, <1>3

(* Every step of cmd/auth is at one place. *)
LEMMA AuthIndex ==
  ASSUME NEW n \in 1..14
  PROVE  /\ Program["auth"][n] = "observability" <=> n = 1
         /\ Program["auth"][n] = "database" <=> n = 2
         /\ Program["auth"][n] = "initialize" <=> n = 6
         /\ Program["auth"][n] = "migrate" <=> n = 3
         /\ Program["auth"][n] # "onStart"
         /\ Program["auth"][n] = "listen" <=> n = 5
         /\ Program["auth"][n] = "startHTTP" <=> n = 4
         /\ Program["auth"][n] = "startGRPC" <=> n = 7
         /\ Program["auth"][n] = "serve" <=> n = 8
         /\ Program["auth"][n] # "stopQueue"
         /\ Program["auth"][n] # "waitQueue"
         /\ Program["auth"][n] # "stopHub"
         /\ Program["auth"][n] = "stopHTTP" <=> n = 9
         /\ Program["auth"][n] = "drainHTTP" <=> n = 10
         /\ Program["auth"][n] = "stopGRPC" <=> n = 11
         /\ Program["auth"][n] = "drainGRPC" <=> n = 12
         /\ Program["auth"][n] # "onStop"
         /\ Program["auth"][n] = "closeDB" <=> n = 14
         /\ Program["auth"][n] = "shutdownObs" <=> n = 13
<1>1. CASE n = 1
  <2>1. Program["auth"][n] = "observability"
    BY AuthSteps, <1>1
  <2> QED BY <1>1, <2>1
<1>2. CASE n = 2
  <2>1. Program["auth"][n] = "database"
    BY AuthSteps, <1>2
  <2> QED BY <1>2, <2>1
<1>3. CASE n = 3
  <2>1. Program["auth"][n] = "migrate"
    BY AuthSteps, <1>3
  <2> QED BY <1>3, <2>1
<1>4. CASE n = 4
  <2>1. Program["auth"][n] = "startHTTP"
    BY AuthSteps, <1>4
  <2> QED BY <1>4, <2>1
<1>5. CASE n = 5
  <2>1. Program["auth"][n] = "listen"
    BY AuthSteps, <1>5
  <2> QED BY <1>5, <2>1
<1>6. CASE n = 6
  <2>1. Program["auth"][n] = "initialize"
    BY AuthSteps, <1>6
  <2> QED BY <1>6, <2>1
<1>7. CASE n = 7
  <2>1. Program["auth"][n] = "startGRPC"
    BY AuthSteps, <1>7
  <2> QED BY <1>7, <2>1
<1>8. CASE n = 8
  <2>1. Program["auth"][n] = "serve"
    BY AuthSteps, <1>8
  <2> QED BY <1>8, <2>1
<1>9. CASE n = 9
  <2>1. Program["auth"][n] = "stopHTTP"
    BY AuthSteps, <1>9
  <2> QED BY <1>9, <2>1
<1>10. CASE n = 10
  <2>1. Program["auth"][n] = "drainHTTP"
    BY AuthSteps, <1>10
  <2> QED BY <1>10, <2>1
<1>11. CASE n = 11
  <2>1. Program["auth"][n] = "stopGRPC"
    BY AuthSteps, <1>11
  <2> QED BY <1>11, <2>1
<1>12. CASE n = 12
  <2>1. Program["auth"][n] = "drainGRPC"
    BY AuthSteps, <1>12
  <2> QED BY <1>12, <2>1
<1>13. CASE n = 13
  <2>1. Program["auth"][n] = "shutdownObs"
    BY AuthSteps, <1>13
  <2> QED BY <1>13, <2>1
<1>14. CASE n = 14
  <2>1. Program["auth"][n] = "closeDB"
    BY AuthSteps, <1>14
  <2> QED BY <1>14, <2>1
<1>15. n = 1 \/ n = 2 \/ n = 3 \/ n = 4 \/ n = 5 \/ n = 6 \/ n = 7 \/ n = 8 \/ n
            = 9 \/ n = 10 \/ n = 11 \/ n = 12 \/ n = 13 \/ n = 14
  OBVIOUS
<1> QED BY <1>1, <1>2, <1>3, <1>4, <1>5, <1>6, <1>7, <1>8, <1>9, <1>10, <1>11, <1>12,
          <1>13, <1>14, <1>15

(* Where cmd/auth is when it is at a step. *)
LEMMA AuthPlaces ==
  ASSUME binary = "auth", at \in Nat \ {0}
  PROVE  /\ Exited <=> at > 14
         /\ At("observability") <=> at = 1
         /\ At("database") <=> at = 2
         /\ At("initialize") <=> at = 6
         /\ At("migrate") <=> at = 3
         /\ ~ At("onStart")
         /\ At("listen") <=> at = 5
         /\ At("startHTTP") <=> at = 4
         /\ At("startGRPC") <=> at = 7
         /\ At("serve") <=> at = 8
         /\ ~ At("stopQueue")
         /\ ~ At("waitQueue")
         /\ ~ At("stopHub")
         /\ At("stopHTTP") <=> at = 9
         /\ At("drainHTTP") <=> at = 10
         /\ At("stopGRPC") <=> at = 11
         /\ At("drainGRPC") <=> at = 12
         /\ ~ At("onStop")
         /\ At("closeDB") <=> at = 14
         /\ At("shutdownObs") <=> at = 13
<1>1. Exited <=> at > 14
  BY AuthSteps DEF Exited
<1>2. CASE at > 14
  BY <1>1, <1>2 DEF At
<1>3. CASE at \in 1..14
  BY <1>1, <1>3, AuthIndex DEF At
<1> QED BY <1>2, <1>3

(* The places Unwind and QuietAfterQueueStop look for. *)
LEMMA Positions ==
  /\ binary = "server" => Position("closeDB") = 18 /\ Position("waitQueue") = 11
  /\ binary = "migrate" => Position("closeDB") = 5
  /\ binary = "worker" => Position("closeDB") = 7
  /\ binary = "auth" => Position("shutdownObs") = 13
<1>1. ASSUME binary = "server"
      PROVE  Position("closeDB") = 18 /\ Position("waitQueue") = 11
  <2>1. DOMAIN Program[binary] = 1..19
    <3>1. Program["server"] \in Seq(Steps) /\ Len(Program["server"]) = 19
      BY ServerSteps
    <3> QED BY <1>1, <3>1
  <2>2. \A n \in 1..19 : Program[binary][n] = "closeDB" <=> n = 18
    <3> TAKE n \in 1..19
    <3>1. Program["server"][n] = "closeDB" <=> n = 18
      BY ServerIndex
    <3> QED BY <1>1, <3>1
  <2>3. \A n \in 1..19 : Program[binary][n] = "waitQueue" <=> n = 11
    <3> TAKE n \in 1..19
    <3>1. Program["server"][n] = "waitQueue" <=> n = 11
      BY ServerIndex
    <3> QED BY <1>1, <3>1
  <2> QED BY <2>1, <2>2, <2>3 DEF Position
<1>2. ASSUME binary = "migrate"
      PROVE  Position("closeDB") = 5
  <2>1. DOMAIN Program[binary] = 1..6
    <3>1. Program["migrate"] \in Seq(Steps) /\ Len(Program["migrate"]) = 6
      BY MigrateSteps
    <3> QED BY <1>2, <3>1
  <2>2. \A n \in 1..6 : Program[binary][n] = "closeDB" <=> n = 5
    BY <1>2, MigrateIndex
  <2> QED BY <2>1, <2>2 DEF Position
<1>3. ASSUME binary = "worker"
      PROVE  Position("closeDB") = 7
  <2>1. DOMAIN Program[binary] = 1..7
    <3>1. Program["worker"] \in Seq(Steps) /\ Len(Program["worker"]) = 7
      BY WorkerSteps
    <3> QED BY <1>3, <3>1
  <2>2. \A n \in 1..7 : Program[binary][n] = "closeDB" <=> n = 7
    BY <1>3, WorkerIndex
  <2> QED BY <2>1, <2>2 DEF Position
<1>4. ASSUME binary = "auth"
      PROVE  Position("shutdownObs") = 13
  <2>1. DOMAIN Program[binary] = 1..14
    <3>1. Program["auth"] \in Seq(Steps) /\ Len(Program["auth"]) = 14
      BY AuthSteps
    <3> QED BY <1>4, <3>1
  <2>2. \A n \in 1..14 : Program[binary][n] = "shutdownObs" <=> n = 13
    <3> TAKE n \in 1..14
    <3>1. Program["auth"][n] = "shutdownObs" <=> n = 13
      BY AuthIndex
    <3> QED BY <1>4, <3>1
  <2> QED BY <2>1, <2>2 DEF Position
<1> QED BY <1>1, <1>2, <1>3, <1>4

(* How many steps each main has. *)
LEMMA Lengths ==
  /\ Len(Program["server"]) = 19 /\ Len(Program["migrate"]) = 6
  /\ Len(Program["worker"]) = 7 /\ Len(Program["auth"]) = 14
BY ServerSteps, MigrateSteps, WorkerSteps, AuthSteps

(* A failing startup jumps over everything but the last deferred calls. *)
LEMMA UnwindTo ==
  ASSUME binary \in {"server", "migrate", "worker", "auth"}, at \in Nat \ {0}
  PROVE  /\ binary = "server" => Unwind = IF db = "open" THEN 18 ELSE 20
         /\ binary = "migrate" => Unwind = IF db = "open" THEN 5 ELSE 7
         /\ binary = "worker" => Unwind = IF db = "open" THEN 7 ELSE 8
         /\ binary = "auth" => Unwind = IF at = 1 THEN 15 ELSE 13
         /\ Unwind \in 1..(Len(Program[binary]) + 1)
<1>1. CASE binary = "server"
  BY <1>1, Positions, Lengths DEF Unwind
<1>2. CASE binary = "migrate"
  BY <1>2, Positions, Lengths DEF Unwind
<1>3. CASE binary = "worker"
  BY <1>3, Positions, Lengths DEF Unwind
<1>4. CASE binary = "auth"
  <2>1. At("observability") <=> at = 1
    BY <1>4, AuthPlaces
  <2> QED BY <1>4, <2>1, Positions, Lengths DEF Unwind
<1> QED BY <1>1, <1>2, <1>3, <1>4

-----------------------------------------------------------------------------
(* Types.                                                                  *)

(* Every main begins well typed. *)
LEMMA TypeInit == Init => TypeOK
<1> SUFFICES ASSUME Init PROVE TypeOK
  OBVIOUS
<1>1. binary \in DOMAIN Program /\ at \in 1..(Len(Program[binary]) + 1)
  BY Lengths DEF Init, Program
<1>2. hooks \in Seq({"OnStart", "OnStop"} \X (1..NumModules))
  BY EmptySeq DEF Init
<1>3. req \in [Request -> {"new", "http", "rpc", "gateway", "abandoned", "refused", "done"}]
  BY DEF Init
<1>4. progress \in 0..(NumModules - 1) /\ dispatched \in 0..MaxTasks /\ tasks \in 0..dispatched
  BY ModulesAssumption, TasksAssumption DEF Init
<1> QED BY <1>1, <1>2, <1>3, <1>4 DEF Init, TypeOK

(* Which main it is, and that it is somewhere. *)
LEMMA Whereabouts ==
  TypeOK => binary \in {"server", "migrate", "worker", "auth"} /\ at \in Nat \ {0}
<1> SUFFICES ASSUME TypeOK
             PROVE  binary \in {"server", "migrate", "worker", "auth"} /\ at \in Nat \ {0}
  OBVIOUS
<1>1. binary \in DOMAIN Program /\ at \in 1..(Len(Program[binary]) + 1)
  BY DEF TypeOK
<1>2. binary \in {"server", "migrate", "worker", "auth"}
  BY <1>1 DEF Program
<1>3. Len(Program[binary]) \in Nat
  BY <1>2, Lengths
<1> QED BY <1>1, <1>2, <1>3

(* The main goroutine goes one step, or one module, on. *)
LEMMA MovesTyped ==
  ASSUME TypeOK, ~ Exited, Proceed \/ PerModule, UNCHANGED binary
  PROVE  /\ binary' \in DOMAIN Program
         /\ at' \in 1..(Len(Program[binary]) + 1)'
         /\ progress' \in 0..(NumModules - 1)
<1>1. Len(Program[binary]) \in Nat
  BY Lengths DEF TypeOK, Program
<1>2. at \in 1..Len(Program[binary])
  BY <1>1 DEF TypeOK, Exited
<1>3. at' \in {at, at + 1} /\ progress' \in 0..(NumModules - 1)
  BY <1>2, ModulesAssumption DEF TypeOK, Proceed, PerModule
<1> QED BY <1>1, <1>2, <1>3 DEF TypeOK

(* A request that moves keeps its type. *)
LEMMA BecomesTyped ==
  ASSUME TypeOK, NEW r \in Request, Becomes(r, "http") \/ Becomes(r, "rpc")
           \/ Becomes(r, "gateway") \/ Becomes(r, "refused") \/ Becomes(r, "abandoned")
           \/ Becomes(r, "done")
  PROVE  TypeOK'
<1>1. req' \in [Request -> {"new", "http", "rpc", "gateway", "abandoned", "refused", "done"}]
  BY DEF TypeOK, Becomes
<1>2. UNCHANGED <<binary, at, progress, hooks, ctxDone, db, http, grpc, queue, stopRequested,
                  tasks, dispatched, publisher, incidents>>
  BY DEF Becomes, main, servers, background
<1> QED BY <1>1, <1>2 DEF TypeOK

(* Every step keeps every type. *)
LEMMA TypeStep == TypeOK /\ [Next]_vars => TypeOK'
<1> SUFFICES ASSUME TypeOK, [Next]_vars PROVE TypeOK'
  OBVIOUS

<1>1. CASE Observability
  <2>1. /\ binary' \in DOMAIN Program
        /\ at' \in 1..(Len(Program[binary]) + 1)'
        /\ progress' \in 0..(NumModules - 1)
    BY <1>1, MovesTyped DEF Observability, Passes, At
  <2>2. /\ UNCHANGED <<hooks, ctxDone, db, http, grpc, queue, stopRequested, tasks, dispatched,
                    publisher, req>>
        /\ incidents' \subseteq incidents \union {"deadline"}
    BY <1>1 DEF Observability, Passes, servers, background
  <2> QED BY <2>1, <2>2 DEF TypeOK
<1>2. CASE OpenDB
  <2>1. /\ binary' \in DOMAIN Program
        /\ at' \in 1..(Len(Program[binary]) + 1)'
        /\ progress' \in 0..(NumModules - 1)
    BY <1>2, MovesTyped DEF OpenDB, At
  <2> QED BY <1>2, <2>1 DEF OpenDB, TypeOK, servers, background
<1>3. CASE InitializeAll
  <2>1. /\ binary' \in DOMAIN Program
        /\ at' \in 1..(Len(Program[binary]) + 1)'
        /\ progress' \in 0..(NumModules - 1)
    BY <1>3, MovesTyped DEF InitializeAll, At
  <2> QED BY <1>3, <2>1 DEF InitializeAll, TypeOK, servers, background
<1>4. CASE RunAll
  <2>1. /\ binary' \in DOMAIN Program
        /\ at' \in 1..(Len(Program[binary]) + 1)'
        /\ progress' \in 0..(NumModules - 1)
    BY <1>4, MovesTyped DEF RunAll, At
  <2> QED BY <1>4, <2>1 DEF RunAll, TypeOK, servers, background
<1>5. CASE RunMigrationsAuth
  <2>1. /\ binary' \in DOMAIN Program
        /\ at' \in 1..(Len(Program[binary]) + 1)'
        /\ progress' \in 0..(NumModules - 1)
    BY <1>5, MovesTyped DEF RunMigrationsAuth, Passes, At
  <2> QED BY <1>5, <2>1 DEF RunMigrationsAuth, Passes, TypeOK, servers, background
<1>6. CASE OnStart
  <2>1. /\ binary' \in DOMAIN Program
        /\ at' \in 1..(Len(Program[binary]) + 1)'
        /\ progress' \in 0..(NumModules - 1)
    BY <1>6, MovesTyped DEF OnStart, At
  <2>2. hooks' \in Seq({"OnStart", "OnStop"} \X (1..NumModules))
    <3>1. <<"OnStart", progress + 1>> \in {"OnStart", "OnStop"} \X (1..NumModules)
      BY ModulesAssumption DEF TypeOK
    <3>2. hooks' = Append(hooks, <<"OnStart", progress + 1>>)
      BY <1>6 DEF OnStart
    <3> HIDE DEF TypeOK
    <3> QED BY <3>1, <3>2, AppendProperties DEF TypeOK
  <2> QED BY <1>6, <2>1, <2>2 DEF OnStart, TypeOK, servers, background
<1>7. CASE Listen
  <2>1. /\ binary' \in DOMAIN Program
        /\ at' \in 1..(Len(Program[binary]) + 1)'
        /\ progress' \in 0..(NumModules - 1)
    BY <1>7, MovesTyped DEF Listen, Passes, At
  <2> QED BY <1>7, <2>1 DEF Listen, Passes, TypeOK, servers, background
<1>8. CASE StartHTTP
  <2>1. /\ binary' \in DOMAIN Program
        /\ at' \in 1..(Len(Program[binary]) + 1)'
        /\ progress' \in 0..(NumModules - 1)
    BY <1>8, MovesTyped DEF StartHTTP, At
  <2> QED BY <1>8, <2>1 DEF StartHTTP, TypeOK, servers, background
<1>9. CASE StartGRPC
  <2>1. /\ binary' \in DOMAIN Program
        /\ at' \in 1..(Len(Program[binary]) + 1)'
        /\ progress' \in 0..(NumModules - 1)
    BY <1>9, MovesTyped DEF StartGRPC, At
  <2> QED BY <1>9, <2>1 DEF StartGRPC, TypeOK, servers, background
<1>10. CASE StartupFails
  <2>1. Unwind \in 1..(Len(Program[binary]) + 1)
    <3>1. binary \in {"server", "migrate", "worker", "auth"} /\ at \in Nat \ {0}
      BY Whereabouts
    <3> QED BY <3>1, UnwindTo
  <2> QED BY <1>10, <2>1, ModulesAssumption DEF StartupFails, TypeOK, servers, background
<1>11. CASE AwaitSignal
  <2>1. /\ binary' \in DOMAIN Program
        /\ at' \in 1..(Len(Program[binary]) + 1)'
        /\ progress' \in 0..(NumModules - 1)
    BY <1>11, MovesTyped DEF AwaitSignal, At
  <2> QED BY <1>11, <2>1 DEF AwaitSignal, TypeOK, servers, background
<1>12. CASE StopQueue
  <2>1. /\ binary' \in DOMAIN Program
        /\ at' \in 1..(Len(Program[binary]) + 1)'
        /\ progress' \in 0..(NumModules - 1)
    BY <1>12, MovesTyped DEF StopQueue, At
  <2> QED BY <1>12, <2>1 DEF StopQueue, TypeOK, servers, background
<1>13. CASE WaitQueue
  <2>1. /\ binary' \in DOMAIN Program
        /\ at' \in 1..(Len(Program[binary]) + 1)'
        /\ progress' \in 0..(NumModules - 1)
    BY <1>13, MovesTyped DEF WaitQueue, At
  <2> QED BY <1>13, <2>1 DEF WaitQueue, TypeOK, servers, background
<1>14. CASE StopHub
  <2>1. /\ binary' \in DOMAIN Program
        /\ at' \in 1..(Len(Program[binary]) + 1)'
        /\ progress' \in 0..(NumModules - 1)
    BY <1>14, MovesTyped DEF StopHub, Passes, At
  <2> QED BY <1>14, <2>1 DEF StopHub, Passes, TypeOK, servers, background
<1>15. CASE StopHTTP
  <2>1. /\ binary' \in DOMAIN Program
        /\ at' \in 1..(Len(Program[binary]) + 1)'
        /\ progress' \in 0..(NumModules - 1)
    BY <1>15, MovesTyped DEF StopHTTP, At
  <2> QED BY <1>15, <2>1 DEF StopHTTP, TypeOK, servers, background
<1>16. CASE DrainHTTP
  <2>1. /\ binary' \in DOMAIN Program
        /\ at' \in 1..(Len(Program[binary]) + 1)'
        /\ progress' \in 0..(NumModules - 1)
    BY <1>16, MovesTyped DEF DrainHTTP, At
  <2>2. /\ UNCHANGED <<hooks, ctxDone, db, http, grpc, queue, stopRequested, tasks, dispatched,
                    publisher, req>>
        /\ incidents' \subseteq incidents \union {"deadline"}
    BY <1>16 DEF DrainHTTP, servers, background
  <2> QED BY <2>1, <2>2 DEF TypeOK
<1>17. CASE StopGRPC
  <2>1. /\ binary' \in DOMAIN Program
        /\ at' \in 1..(Len(Program[binary]) + 1)'
        /\ progress' \in 0..(NumModules - 1)
    BY <1>17, MovesTyped DEF StopGRPC, At
  <2> QED BY <1>17, <2>1 DEF StopGRPC, TypeOK, servers, background
<1>18. CASE DrainGRPC
  <2>1. /\ binary' \in DOMAIN Program
        /\ at' \in 1..(Len(Program[binary]) + 1)'
        /\ progress' \in 0..(NumModules - 1)
    BY <1>18, MovesTyped DEF DrainGRPC, At
  <2> QED BY <1>18, <2>1 DEF DrainGRPC, TypeOK, servers, background
<1>19. CASE OnStop
  <2>1. /\ binary' \in DOMAIN Program
        /\ at' \in 1..(Len(Program[binary]) + 1)'
        /\ progress' \in 0..(NumModules - 1)
    BY <1>19, MovesTyped DEF OnStop, At
  <2>2. hooks' \in Seq({"OnStart", "OnStop"} \X (1..NumModules))
    <3>1. <<"OnStop", NumModules - progress>> \in {"OnStart", "OnStop"} \X (1..NumModules)
      BY ModulesAssumption DEF TypeOK
    <3>2. hooks' = Append(hooks, <<"OnStop", NumModules - progress>>)
      BY <1>19 DEF OnStop
    <3> HIDE DEF TypeOK
    <3> QED BY <3>1, <3>2, AppendProperties DEF TypeOK
  <2> QED BY <1>19, <2>1, <2>2 DEF OnStop, TypeOK, servers, background
<1>20. CASE CloseDB
  <2>1. /\ binary' \in DOMAIN Program
        /\ at' \in 1..(Len(Program[binary]) + 1)'
        /\ progress' \in 0..(NumModules - 1)
    BY <1>20, MovesTyped DEF CloseDB, At
  <2> QED BY <1>20, <2>1 DEF CloseDB, TypeOK, servers, background
<1>21. CASE Signal
  BY <1>21, TasksAssumption DEF Signal, TypeOK, main, servers, background
<1>22. CASE ServeHTTP
  BY <1>22, TasksAssumption DEF ServeHTTP, TypeOK, main, servers, background
<1>23. CASE ServeGRPC
  BY <1>23, TasksAssumption DEF ServeGRPC, TypeOK, main, servers, background
<1>24. CASE ServeGRPCFails
  BY <1>24, TasksAssumption DEF ServeGRPCFails, TypeOK, main, servers, background
<1>25. CASE StartQueue
  BY <1>25, TasksAssumption DEF StartQueue, TypeOK, main, servers, background
<1>26. CASE Dispatch
  BY <1>26, TasksAssumption DEF Dispatch, TypeOK, main, servers, background
<1>27. CASE WorkerStops
  BY <1>27, TasksAssumption DEF WorkerStops, TypeOK, main, servers, background
<1>28. CASE TaskEnds
  BY <1>28, TasksAssumption DEF TaskEnds, TypeOK, main, servers, background
<1>29. CASE PublisherPolls
  BY <1>29, TasksAssumption DEF PublisherPolls, TypeOK, main, servers, background
<1>30. CASE PublisherRests
  BY <1>30, TasksAssumption DEF PublisherRests, TypeOK, main, servers, background
<1>31. CASE \E r \in Request : Arrives(r) \/ Handled(r)
  BY <1>31, BecomesTyped DEF Arrives, Handled, HTTPArrives, RPCArrives, HTTPEnds, CallsGateway,
     TimesOut, RPCEnds
<1>32. CASE UNCHANGED vars
  BY <1>32 DEF vars, TypeOK
<1> QED BY <1>1, <1>2, <1>3, <1>4, <1>5, <1>6, <1>7, <1>8, <1>9, <1>10, <1>11, <1>12,
          <1>13, <1>14, <1>15, <1>16, <1>17, <1>18, <1>19, <1>20, <1>21, <1>22,
          <1>23, <1>24, <1>25, <1>26, <1>27, <1>28, <1>29, <1>30, <1>31, <1>32
       DEF Next, Main, Startup, Shutdown, Finished

-----------------------------------------------------------------------------
(* What each main has and has not at each of its steps.                     *)

ServerInv ==
  /\ at \in 3..18 => db = "open"
  /\ at <= 7 => http = "off" /\ \A r \in Request : req[r] = "new"
  /\ at <= 8 => grpc = "off" /\ queue = "off" /\ tasks = 0
  /\ at >= 11 => stopRequested \/ queue = "off"
  /\ at >= 12 => "lateQueue" \in incidents \/ (queue # "running" /\ tasks = 0)
  /\ at >= 14 => http \in {"off", "closed"}
  /\ at >= 15 => "deadline" \in incidents \/ \A r \in Request : req[r] # "http"
  /\ at >= 16 => grpc \in {"off", "closed"}
  /\ grpc = "closed" => at >= 16
  /\ grpc = "failed" => "grpc" \in incidents
  /\ \A r \in Request :
        /\ Running(r) => at \in 9..16
        /\ req[r] = "refused" => "grpc" \in incidents \/ "deadline" \in incidents

AuthInv ==
  /\ at \in 3..12 => db = "open"
  /\ at <= 7 => grpc = "off" /\ \A r \in Request : ~ Running(r)
  /\ at >= 12 => grpc \in {"off", "closed"}
  /\ \A r \in Request :
        /\ Running(r) => at \in 8..12
        /\ req[r] # "refused"

IdleInv ==
  /\ http = "off" /\ grpc = "off"
  /\ \A r \in Request : req[r] = "new"

Mains ==
  /\ binary = "server" => ServerInv
  /\ binary = "auth" => AuthInv
  /\ binary \in {"worker", "migrate"} => IdleInv

(* A request moves alone. *)
LEMMA BecomesEffect ==
  ASSUME TypeOK, NEW r \in Request, NEW s, Becomes(r, s)
  PROVE  /\ \A q \in Request : req'[q] = IF q = r THEN s ELSE req[q]
         /\ UNCHANGED <<binary, at, progress, hooks, ctxDone, db, http, grpc, queue,
                        stopRequested, tasks, dispatched, publisher, incidents>>
         /\ ~ Exited
BY DEF TypeOK, Becomes, main, servers, background

(* Where a failing startup goes, and from where. *)
LEMMA Jump ==
  ASSUME TypeOK, StartupFails
  PROVE  /\ binary = "server" => at <= 6 /\ at' = IF db = "open" THEN 18 ELSE 20
         /\ binary = "migrate" => at' = IF db = "open" THEN 5 ELSE 7
         /\ binary = "worker" => at <= 4 /\ at' = IF db = "open" THEN 7 ELSE 8
         /\ binary = "auth" => at <= 6 /\ at' = IF at = 1 THEN 15 ELSE 13
<1>1. binary \in {"server", "migrate", "worker", "auth"} /\ at \in Nat \ {0}
  BY Whereabouts
<1>2. at' = Unwind
  BY DEF StartupFails
<1>3. /\ binary = "server" => at' = IF db = "open" THEN 18 ELSE 20
      /\ binary = "migrate" => at' = IF db = "open" THEN 5 ELSE 7
      /\ binary = "worker" => at' = IF db = "open" THEN 7 ELSE 8
      /\ binary = "auth" => at' = IF at = 1 THEN 15 ELSE 13
  BY <1>1, <1>2, UnwindTo
<1>4. \/ At("observability") \/ At("database") \/ At("initialize") \/ At("migrate")
      \/ At("onStart") \/ At("listen")
  BY DEF StartupFails
<1>5. binary = "server" => at <= 6
  BY <1>1, <1>4, ServerPlaces
<1>6. binary = "worker" => at <= 4
  BY <1>1, <1>4, WorkerPlaces
<1>7. binary = "auth" => at <= 6
  BY <1>1, <1>4, AuthPlaces
<1> QED BY <1>3, <1>5, <1>6, <1>7

(* One step of anything in a cmd/server process. *)
LEMMA ServerStep ==
  ASSUME TypeOK, binary = "server", ServerInv, Next
  PROVE  ServerInv'
<1>1. at \in Nat \ {0}
  BY Whereabouts
<1>2. CASE Observability
  <2>1. at \in {1, 19} /\ at' = at + 1
    BY <1>1, <1>2, ServerPlaces DEF Observability, Passes, Proceed
  <2> QED BY <1>2, <2>1 DEF Observability, Passes, ServerInv, Running, servers, background
<1>3. CASE OpenDB
  <2>1. at = 2 /\ at' = at + 1
    BY <1>1, <1>3, ServerPlaces DEF OpenDB, Proceed
  <2> QED BY <1>3, <2>1 DEF OpenDB, ServerInv, Running, servers, background
<1>4. CASE InitializeAll
  <2>1. at = 3 /\ at' \in {at, at + 1}
    BY <1>1, <1>4, ServerPlaces DEF InitializeAll, PerModule, Proceed
  <2> QED BY <1>4, <2>1 DEF InitializeAll, ServerInv, Running, servers, background
<1>5. CASE RunAll
  <2>1. at = 4 /\ at' \in {at, at + 1}
    BY <1>1, <1>5, ServerPlaces DEF RunAll, PerModule, Proceed
  <2> QED BY <1>5, <2>1 DEF RunAll, ServerInv, Running, servers, background
<1>6. CASE RunMigrationsAuth
  BY <1>6 DEF RunMigrationsAuth
<1>7. CASE OnStart
  <2>1. at = 5 /\ at' \in {at, at + 1}
    BY <1>1, <1>7, ServerPlaces DEF OnStart, PerModule, Proceed
  <2> QED BY <1>7, <2>1 DEF OnStart, ServerInv, Running, servers, background
<1>8. CASE Listen
  <2>1. at = 6 /\ at' = at + 1
    BY <1>1, <1>8, ServerPlaces DEF Listen, Passes, Proceed
  <2> QED BY <1>8, <2>1 DEF Listen, Passes, ServerInv, Running, servers, background
<1>9. CASE StartHTTP
  <2>1. at = 7 /\ at' = at + 1
    BY <1>1, <1>9, ServerPlaces DEF StartHTTP, Proceed
  <2> QED BY <1>9, <2>1 DEF StartHTTP, ServerInv, Running, servers, background
<1>10. CASE StartGRPC
  <2>1. at = 8 /\ at' = at + 1
    BY <1>1, <1>10, ServerPlaces DEF StartGRPC, Proceed
  <2> QED BY <1>10, <2>1 DEF StartGRPC, ServerInv, Running, servers, background
<1>11. CASE StartupFails
  BY <1>1, <1>11, Jump DEF StartupFails, ServerInv, Running, servers, background
<1>12. CASE AwaitSignal
  <2>1. at = 9 /\ at' = at + 1
    BY <1>1, <1>12, ServerPlaces DEF AwaitSignal, Proceed
  <2> QED BY <1>12, <2>1 DEF AwaitSignal, ServerInv, Running, servers, background
<1>13. CASE StopQueue
  <2>1. at = 10 /\ at' = at + 1
    BY <1>1, <1>13, ServerPlaces DEF StopQueue, Proceed
  <2> QED BY <1>13, <2>1 DEF StopQueue, ServerInv, Running, servers, background
<1>14. CASE WaitQueue
  <2>1. at = 11 /\ at' = at + 1
    BY <1>1, <1>14, ServerPlaces DEF WaitQueue, Proceed
  <2> QED BY <1>14, <2>1 DEF WaitQueue, ServerInv, Running, servers, background
<1>15. CASE StopHub
  <2>1. at = 12 /\ at' = at + 1
    BY <1>1, <1>15, ServerPlaces DEF StopHub, Passes, Proceed
  <2> QED BY <1>15, <2>1 DEF StopHub, Passes, ServerInv, Running, servers, background
<1>16. CASE StopHTTP
  <2>1. at = 13 /\ at' = at + 1
    BY <1>1, <1>16, ServerPlaces DEF StopHTTP, Proceed
  <2> QED BY <1>16, <2>1 DEF StopHTTP, ServerInv, Running, servers, background
<1>17. CASE DrainHTTP
  <2>1. at = 14 /\ at' = at + 1
    BY <1>1, <1>17, ServerPlaces DEF DrainHTTP, Proceed
  <2> QED BY <1>17, <2>1 DEF DrainHTTP, ServerInv, Running, servers, background
<1>18. CASE StopGRPC
  <2>1. at = 15 /\ at' = at + 1
    BY <1>1, <1>18, ServerPlaces DEF StopGRPC, Proceed
  <2> QED BY <1>18, <2>1 DEF StopGRPC, ServerInv, Running, servers, background
<1>19. CASE DrainGRPC
  <2>1. at = 16 /\ at' = at + 1
    BY <1>1, <1>19, ServerPlaces DEF DrainGRPC, Proceed
  <2> QED BY <1>19, <2>1 DEF DrainGRPC, ServerInv, Running, servers, background
<1>20. CASE OnStop
  <2>1. at = 17 /\ at' \in {at, at + 1}
    BY <1>1, <1>20, ServerPlaces DEF OnStop, PerModule, Proceed
  <2> QED BY <1>20, <2>1 DEF OnStop, ServerInv, Running, servers, background
<1>21. CASE CloseDB
  <2>1. at = 18 /\ at' = at + 1
    BY <1>1, <1>21, ServerPlaces DEF CloseDB, Proceed
  <2> QED BY <1>21, <2>1 DEF CloseDB, ServerInv, Running, servers, background
<1>22. CASE Signal
  BY <1>1, <1>22 DEF Signal, ServerInv, Running, TypeOK, main, servers, background
<1>23. CASE ServeHTTP
  BY <1>1, <1>23 DEF ServeHTTP, ServerInv, Running, TypeOK, main, servers, background
<1>24. CASE ServeGRPC
  BY <1>1, <1>24 DEF ServeGRPC, ServerInv, Running, TypeOK, main, servers, background
<1>25. CASE ServeGRPCFails
  BY <1>1, <1>25 DEF ServeGRPCFails, ServerInv, Running, TypeOK, main, servers, background
<1>26. CASE StartQueue
  BY <1>1, <1>26 DEF StartQueue, ServerInv, Running, TypeOK, main, servers, background
<1>27. CASE Dispatch
  BY <1>1, <1>27 DEF Dispatch, ServerInv, Running, TypeOK, main, servers, background
<1>28. CASE WorkerStops
  BY <1>1, <1>28 DEF WorkerStops, ServerInv, Running, TypeOK, main, servers, background
<1>29. CASE TaskEnds
  BY <1>1, <1>29 DEF TaskEnds, ServerInv, Running, TypeOK, main, servers, background
<1>30. CASE PublisherPolls
  BY <1>1, <1>30 DEF PublisherPolls, ServerInv, Running, TypeOK, main, servers, background
<1>31. CASE PublisherRests
  BY <1>1, <1>31 DEF PublisherRests, ServerInv, Running, TypeOK, main, servers, background
<1>32. CASE \E r \in Request : Arrives(r) \/ Handled(r)
  <2>1. PICK r \in Request :
          \/ HTTPArrives(r) \/ RPCArrives(r) \/ HTTPEnds(r)
          \/ CallsGateway(r) \/ TimesOut(r) \/ RPCEnds(r)
    BY <1>32 DEF Arrives, Handled
  <2>2. CASE HTTPArrives(r)
    BY <1>1, <2>2, BecomesEffect DEF HTTPArrives, ServerInv, Running
  <2>3. CASE RPCArrives(r)
    BY <1>1, <2>3, BecomesEffect DEF RPCArrives, ServerInv, Running
  <2>4. CASE HTTPEnds(r)
    BY <1>1, <2>4, BecomesEffect DEF HTTPEnds, ServerInv, Running
  <2>5. CASE CallsGateway(r)
    BY <1>1, <2>5, BecomesEffect DEF CallsGateway, ServerInv, Running
  <2>6. CASE TimesOut(r)
    BY <1>1, <2>6, BecomesEffect DEF TimesOut, ServerInv, Running
  <2>7. CASE RPCEnds(r)
    BY <1>1, <2>7, BecomesEffect DEF RPCEnds, ServerInv, Running
  <2> QED BY <2>1, <2>2, <2>3, <2>4, <2>5, <2>6, <2>7
<1>33. CASE Finished
  BY <1>33 DEF Finished, vars, ServerInv, Running
<1> QED BY <1>2, <1>3, <1>4, <1>5, <1>6, <1>7, <1>8, <1>9, <1>10, <1>11, <1>12,
          <1>13, <1>14, <1>15, <1>16, <1>17, <1>18, <1>19, <1>20, <1>21, <1>22,
          <1>23, <1>24, <1>25, <1>26, <1>27, <1>28, <1>29, <1>30, <1>31, <1>32,
          <1>33
       DEF Next, Main, Startup, Shutdown

(* One step of anything in a cmd/auth process. *)
LEMMA AuthStep ==
  ASSUME TypeOK, binary = "auth", AuthInv, Next
  PROVE  AuthInv'
<1>1. at \in Nat \ {0}
  BY Whereabouts
<1>2. CASE Observability
  <2>1. at \in {1, 13} /\ at' = at + 1
    BY <1>1, <1>2, AuthPlaces DEF Observability, Passes, Proceed
  <2> QED BY <1>2, <2>1 DEF Observability, Passes, AuthInv, Running, servers, background
<1>3. CASE OpenDB
  <2>1. at = 2 /\ at' = at + 1
    BY <1>1, <1>3, AuthPlaces DEF OpenDB, Proceed
  <2> QED BY <1>3, <2>1 DEF OpenDB, AuthInv, Running, servers, background
<1>4. CASE InitializeAll
  <2>1. at = 6 /\ at' \in {at, at + 1}
    BY <1>1, <1>4, AuthPlaces DEF InitializeAll, PerModule, Proceed
  <2> QED BY <1>4, <2>1 DEF InitializeAll, AuthInv, Running, servers, background
<1>5. CASE RunAll
  BY <1>5 DEF RunAll
<1>6. CASE RunMigrationsAuth
  <2>1. at = 3 /\ at' = at + 1
    BY <1>1, <1>6, AuthPlaces DEF RunMigrationsAuth, Passes, Proceed
  <2> QED BY <1>6, <2>1 DEF RunMigrationsAuth, Passes, AuthInv, Running, servers, background
<1>7. CASE OnStart
  BY <1>1, <1>7, AuthPlaces DEF OnStart
<1>8. CASE Listen
  <2>1. at = 5 /\ at' = at + 1
    BY <1>1, <1>8, AuthPlaces DEF Listen, Passes, Proceed
  <2> QED BY <1>8, <2>1 DEF Listen, Passes, AuthInv, Running, servers, background
<1>9. CASE StartHTTP
  <2>1. at = 4 /\ at' = at + 1
    BY <1>1, <1>9, AuthPlaces DEF StartHTTP, Proceed
  <2> QED BY <1>9, <2>1 DEF StartHTTP, AuthInv, Running, servers, background
<1>10. CASE StartGRPC
  <2>1. at = 7 /\ at' = at + 1
    BY <1>1, <1>10, AuthPlaces DEF StartGRPC, Proceed
  <2> QED BY <1>10, <2>1 DEF StartGRPC, AuthInv, Running, servers, background
<1>11. CASE StartupFails
  BY <1>1, <1>11, Jump DEF StartupFails, AuthInv, Running, servers, background
<1>12. CASE AwaitSignal
  <2>1. at = 8 /\ at' = at + 1
    BY <1>1, <1>12, AuthPlaces DEF AwaitSignal, Proceed
  <2> QED BY <1>12, <2>1 DEF AwaitSignal, AuthInv, Running, servers, background
<1>13. CASE StopQueue
  BY <1>1, <1>13, AuthPlaces DEF StopQueue
<1>14. CASE WaitQueue
  BY <1>1, <1>14, AuthPlaces DEF WaitQueue
<1>15. CASE StopHub
  BY <1>1, <1>15, AuthPlaces DEF StopHub, Passes
<1>16. CASE StopHTTP
  <2>1. at = 9 /\ at' = at + 1
    BY <1>1, <1>16, AuthPlaces DEF StopHTTP, Proceed
  <2> QED BY <1>16, <2>1 DEF StopHTTP, AuthInv, Running, servers, background
<1>17. CASE DrainHTTP
  <2>1. at = 10 /\ at' = at + 1
    BY <1>1, <1>17, AuthPlaces DEF DrainHTTP, Proceed
  <2> QED BY <1>17, <2>1 DEF DrainHTTP, AuthInv, Running, servers, background
<1>18. CASE StopGRPC
  <2>1. at = 11 /\ at' = at + 1
    BY <1>1, <1>18, AuthPlaces DEF StopGRPC, Proceed
  <2> QED BY <1>18, <2>1 DEF StopGRPC, AuthInv, Running, servers, background
<1>19. CASE DrainGRPC
  <2>1. at = 12 /\ at' = at + 1
    BY <1>1, <1>19, AuthPlaces DEF DrainGRPC, Proceed
  <2> QED BY <1>19, <2>1 DEF DrainGRPC, AuthInv, Running, servers, background
<1>20. CASE OnStop
  BY <1>1, <1>20, AuthPlaces DEF OnStop
<1>21. CASE CloseDB
  <2>1. at = 14 /\ at' = at + 1
    BY <1>1, <1>21, AuthPlaces DEF CloseDB, Proceed
  <2> QED BY <1>21, <2>1 DEF CloseDB, AuthInv, Running, servers, background
<1>22. CASE Signal
  BY <1>1, <1>22 DEF Signal, AuthInv, Running, TypeOK, main, servers, background
<1>23. CASE ServeHTTP
  BY <1>1, <1>23 DEF ServeHTTP, AuthInv, Running, TypeOK, main, servers, background
<1>24. CASE ServeGRPC
  BY <1>1, <1>24 DEF ServeGRPC, AuthInv, Running, TypeOK, main, servers, background
<1>25. CASE ServeGRPCFails
  BY <1>1, <1>25 DEF ServeGRPCFails, AuthInv, Running, TypeOK, main, servers, background
<1>26. CASE StartQueue
  BY <1>1, <1>26 DEF StartQueue, AuthInv, Running, TypeOK, main, servers, background
<1>27. CASE Dispatch
  BY <1>1, <1>27 DEF Dispatch, AuthInv, Running, TypeOK, main, servers, background
<1>28. CASE WorkerStops
  BY <1>1, <1>28 DEF WorkerStops, AuthInv, Running, TypeOK, main, servers, background
<1>29. CASE TaskEnds
  BY <1>1, <1>29 DEF TaskEnds, AuthInv, Running, TypeOK, main, servers, background
<1>30. CASE PublisherPolls
  BY <1>1, <1>30 DEF PublisherPolls, AuthInv, Running, TypeOK, main, servers, background
<1>31. CASE PublisherRests
  BY <1>1, <1>31 DEF PublisherRests, AuthInv, Running, TypeOK, main, servers, background
<1>32. CASE \E r \in Request : Arrives(r) \/ Handled(r)
  <2>1. PICK r \in Request :
          \/ HTTPArrives(r) \/ RPCArrives(r) \/ HTTPEnds(r)
          \/ CallsGateway(r) \/ TimesOut(r) \/ RPCEnds(r)
    BY <1>32 DEF Arrives, Handled
  <2>2. CASE HTTPArrives(r)
    BY <1>1, <2>2, BecomesEffect DEF HTTPArrives, AuthInv, Running
  <2>3. CASE RPCArrives(r)
    BY <1>1, <2>3, BecomesEffect DEF RPCArrives, AuthInv, Running
  <2>4. CASE HTTPEnds(r)
    BY <1>1, <2>4, BecomesEffect DEF HTTPEnds, AuthInv, Running
  <2>5. CASE CallsGateway(r)
    BY <1>1, <2>5, BecomesEffect DEF CallsGateway, AuthInv, Running
  <2>6. CASE TimesOut(r)
    BY <1>1, <2>6, BecomesEffect DEF TimesOut, AuthInv, Running
  <2>7. CASE RPCEnds(r)
    BY <1>1, <2>7, BecomesEffect DEF RPCEnds, AuthInv, Running
  <2> QED BY <2>1, <2>2, <2>3, <2>4, <2>5, <2>6, <2>7
<1>33. CASE Finished
  BY <1>33 DEF Finished, vars, AuthInv, Running
<1> QED BY <1>2, <1>3, <1>4, <1>5, <1>6, <1>7, <1>8, <1>9, <1>10, <1>11, <1>12,
          <1>13, <1>14, <1>15, <1>16, <1>17, <1>18, <1>19, <1>20, <1>21, <1>22,
          <1>23, <1>24, <1>25, <1>26, <1>27, <1>28, <1>29, <1>30, <1>31, <1>32,
          <1>33
       DEF Next, Main, Startup, Shutdown

(* One step of a main without servers. *)
LEMMA IdleStep ==
  ASSUME TypeOK, binary \in {"worker", "migrate"}, IdleInv, Next
  PROVE  IdleInv'
<1>1. at \in Nat \ {0}
  BY Whereabouts
<1>2. ~ StartHTTP /\ ~ StartGRPC /\ ~ StopHTTP /\ ~ StopGRPC
  <2>1. ~ At("startHTTP") /\ ~ At("startGRPC") /\ ~ At("stopHTTP") /\ ~ At("stopGRPC")
    <3>1. CASE binary = "worker"
      BY <1>1, <3>1, WorkerPlaces
    <3>2. CASE binary = "migrate"
      BY <1>1, <3>2, MigratePlaces
    <3> QED BY <3>1, <3>2
  <2> QED BY <2>1 DEF StartHTTP, StartGRPC, StopHTTP, StopGRPC
<1>3. ~ ServeHTTP /\ ~ ServeGRPC /\ ~ ServeGRPCFails /\ ~ \E r \in Request : Arrives(r) \/ Handled(r)
  BY DEF IdleInv, ServeHTTP, ServeGRPC, ServeGRPCFails, Arrives, Handled, HTTPArrives, RPCArrives,
         HTTPEnds, CallsGateway, TimesOut, RPCEnds, Running
<1>4. UNCHANGED <<http, grpc, req>>
  <2>1. CASE Startup
    BY <1>2, <2>1 DEF Startup, Observability, OpenDB, InitializeAll, RunAll, RunMigrationsAuth,
       OnStart, Listen, Passes, servers
  <2>2. CASE StartupFails \/ Shutdown
    BY <1>2, <2>2 DEF StartupFails, Shutdown, AwaitSignal, StopQueue, WaitQueue, StopHub, DrainHTTP,
       DrainGRPC, OnStop, CloseDB, Passes, servers
  <2>3. CASE Signal \/ StartQueue \/ Dispatch \/ WorkerStops \/ TaskEnds \/ PublisherPolls
             \/ PublisherRests
    BY <2>3 DEF Signal, StartQueue, Dispatch, WorkerStops, TaskEnds, PublisherPolls,
       PublisherRests, servers
  <2>4. CASE Finished
    BY <2>4 DEF Finished, vars
  <2> QED BY <1>3, <2>1, <2>2, <2>3, <2>4 DEF Next, Main
<1> QED BY <1>4 DEF IdleInv

-----------------------------------------------------------------------------
(* The hooks.  A main that runs them has its OnStart loop at step s and its *)
(* OnStop loop at step t.                                                   *)

Hook(i) ==
  IF i <= NumModules THEN <<"OnStart", i>> ELSE <<"OnStop", 2 * NumModules + 1 - i>>

HooksSound ==
  /\ Len(hooks) <= 2 * NumModules
  /\ \A i \in 1..Len(hooks) : hooks[i] = Hook(i)

Counted(s, t) ==
  /\ at < s => Len(hooks) = 0
  /\ at = s => Len(hooks) = progress
  /\ at > s /\ at < t => Len(hooks) = NumModules
  /\ at = t => Len(hooks) = NumModules + progress
  /\ at > t => "startup" \in incidents \/ Len(hooks) = 2 * NumModules

HooksInv ==
  /\ HooksSound
  /\ binary = "server" => Counted(5, 17)
  /\ binary = "worker" => Counted(4, 6)
  /\ binary \in {"migrate", "auth"} => Len(hooks) = 0

(* Every step but three leaves the hooks alone. *)
LEMMA OtherSteps ==
  ASSUME Next, ~ OnStart, ~ OnStop, ~ StartupFails
  PROVE  /\ hooks' = hooks /\ incidents \subseteq incidents' /\ binary' = binary
         /\ \/ at' = at /\ progress' = progress
            \/ /\ ~ At("onStart") /\ ~ At("onStop")
               /\ Proceed \/ PerModule
<1>1. CASE Startup
  <2>1. /\ ~ At("onStart") /\ ~ At("onStop")
        /\ Proceed \/ PerModule
    BY <1>1 DEF Startup, Observability, OpenDB, InitializeAll, RunAll, RunMigrationsAuth, Listen,
       StartHTTP, StartGRPC, Passes, At
  <2>2. UNCHANGED <<hooks, incidents, binary>>
    BY <1>1 DEF Startup, Observability, OpenDB, InitializeAll, RunAll, RunMigrationsAuth, Listen,
       StartHTTP, StartGRPC, Passes
  <2> QED BY <2>1, <2>2
<1>2. CASE Shutdown
  <2>1. /\ ~ At("onStart") /\ ~ At("onStop")
        /\ Proceed
    BY <1>2 DEF Shutdown, AwaitSignal, StopQueue, WaitQueue, StopHub, StopHTTP, DrainHTTP,
       StopGRPC, DrainGRPC, CloseDB, Passes, At
  <2>2. UNCHANGED <<hooks, binary>> /\ incidents \subseteq incidents'
    BY <1>2 DEF Shutdown, AwaitSignal, StopQueue, WaitQueue, StopHub, StopHTTP, DrainHTTP,
       StopGRPC, DrainGRPC, CloseDB, Passes
  <2> QED BY <2>1, <2>2
<1>3. CASE Signal \/ ServeHTTP \/ ServeGRPC \/ ServeGRPCFails \/ StartQueue \/ Dispatch
           \/ WorkerStops \/ TaskEnds \/ PublisherPolls \/ PublisherRests
  BY <1>3 DEF Signal, ServeHTTP, ServeGRPC, ServeGRPCFails, StartQueue, Dispatch, WorkerStops,
     TaskEnds, PublisherPolls, PublisherRests, main
<1>4. CASE \E r \in Request : Arrives(r) \/ Handled(r)
  BY <1>4 DEF Arrives, Handled, HTTPArrives, RPCArrives, HTTPEnds, CallsGateway, TimesOut, RPCEnds,
     Becomes, main
<1>5. CASE Finished
  BY <1>5 DEF Finished, vars
<1> QED BY <1>1, <1>2, <1>3, <1>4, <1>5 DEF Next, Main

(* A hook more. *)
LEMMA OneMore ==
  ASSUME TypeOK, HooksSound, Len(hooks) < 2 * NumModules,
         NEW h \in {"OnStart", "OnStop"} \X (1..NumModules), h = Hook(Len(hooks) + 1),
         hooks' = Append(hooks, h)
  PROVE  HooksSound' /\ Len(hooks') = Len(hooks) + 1
<1>1. /\ hooks' \in Seq({"OnStart", "OnStop"} \X (1..NumModules))
      /\ Len(hooks') = Len(hooks) + 1
      /\ \A i \in 1..Len(hooks) : hooks'[i] = hooks[i]
      /\ hooks'[Len(hooks) + 1] = h
  BY AppendProperties DEF TypeOK
<1>2. Len(hooks) \in Nat
  BY LenProperties DEF TypeOK
<1>3. ASSUME NEW i \in 1..Len(hooks') PROVE hooks'[i] = Hook(i)
  <2>1. CASE i \in 1..Len(hooks)
    BY <1>1, <2>1 DEF HooksSound
  <2>2. CASE i = Len(hooks) + 1
    BY <1>1, <2>2
  <2> QED BY <1>1, <1>2, <2>1, <2>2
<1>4. Len(hooks') <= 2 * NumModules
  BY <1>1, <1>2, ModulesAssumption
<1> QED BY <1>1, <1>3, <1>4 DEF HooksSound, Hook

(* A step, in a main whose two loops over the hooks are known. *)
LEMMA CountedStep ==
  ASSUME TypeOK, HooksSound, Next, NEW s \in Nat, NEW t \in Nat, s < t, Counted(s, t),
         At("onStart") <=> at = s, At("onStop") <=> at = t,
         StartupFails => at' \in Nat /\ at' > t
  PROVE  HooksSound' /\ Counted(s, t)'
<1>1. at \in Nat \ {0} /\ progress \in 0..(NumModules - 1) /\ NumModules \in Nat \ {0}
  BY Whereabouts, ModulesAssumption DEF TypeOK
<1>2. CASE OnStart
  <2>1. at = s /\ Len(hooks) = progress
    BY <1>2 DEF OnStart, Counted
  <2>2. /\ hooks' = Append(hooks, <<"OnStart", progress + 1>>)
        /\ PerModule
    BY <1>2 DEF OnStart
  <2>3. /\ <<"OnStart", progress + 1>> \in {"OnStart", "OnStop"} \X (1..NumModules)
        /\ <<"OnStart", progress + 1>> = Hook(Len(hooks) + 1)
    BY <1>1, <2>1 DEF Hook
  <2>4. HooksSound' /\ Len(hooks') = progress + 1
    BY <1>1, <2>1, <2>2, <2>3, OneMore
  <2>5. CASE progress + 1 < NumModules
    <3>1. at' = s /\ progress' = progress + 1
      BY <2>1, <2>2, <2>5 DEF PerModule
    <3> QED BY <1>1, <2>4, <3>1 DEF Counted
  <2>6. CASE ~ (progress + 1 < NumModules)
    <3>1. at' = s + 1 /\ progress' = 0 /\ progress = NumModules - 1
      BY <1>1, <2>1, <2>2, <2>6 DEF PerModule, Proceed
    <3>2. Len(hooks)' = NumModules
      BY <1>1, <2>4, <3>1
    <3> QED BY <1>1, <2>4, <3>1, <3>2 DEF Counted
  <2> QED BY <2>5, <2>6
<1>3. CASE OnStop
  <2>1. at = t /\ Len(hooks) = NumModules + progress
    BY <1>1, <1>3 DEF OnStop, Counted
  <2>2. /\ hooks' = Append(hooks, <<"OnStop", NumModules - progress>>)
        /\ PerModule
    BY <1>3 DEF OnStop
  <2>3. /\ <<"OnStop", NumModules - progress>> \in {"OnStart", "OnStop"} \X (1..NumModules)
        /\ <<"OnStop", NumModules - progress>> = Hook(Len(hooks) + 1)
    BY <1>1, <2>1 DEF Hook
  <2>4. HooksSound' /\ Len(hooks') = NumModules + progress + 1
    BY <1>1, <2>1, <2>2, <2>3, OneMore
  <2>5. CASE progress + 1 < NumModules
    <3>1. at' = t /\ progress' = progress + 1
      BY <2>1, <2>2, <2>5 DEF PerModule
    <3> QED BY <1>1, <2>4, <3>1 DEF Counted
  <2>6. CASE ~ (progress + 1 < NumModules)
    <3>1. at' = t + 1 /\ progress' = 0 /\ progress = NumModules - 1
      BY <1>1, <2>1, <2>2, <2>6 DEF PerModule, Proceed
    <3>2. Len(hooks)' = 2 * NumModules
      BY <1>1, <2>4, <3>1
    <3> QED BY <1>1, <2>4, <3>1, <3>2 DEF Counted
  <2> QED BY <2>5, <2>6
<1>4. CASE StartupFails
  <2>1. hooks' = hooks /\ "startup" \in incidents'
    BY <1>4 DEF StartupFails
  <2>2. at' \in Nat /\ at' > t
    BY <1>4
  <2> QED BY <2>1, <2>2 DEF HooksSound, Hook, Counted
<1>5. CASE ~ OnStart /\ ~ OnStop /\ ~ StartupFails
  <2>1. hooks' = hooks /\ incidents \subseteq incidents'
    BY <1>5, OtherSteps
  <2>2. \/ at' = at /\ progress' = progress
        \/ at # s /\ at # t /\ at' = at
        \/ at # s /\ at # t /\ at' = at + 1 /\ progress' = 0
    BY <1>5, OtherSteps DEF Proceed, PerModule
  <2> QED BY <1>1, <2>1, <2>2 DEF HooksSound, Hook, Counted
<1> QED BY <1>2, <1>3, <1>4, <1>5

(* A step, in any main. *)
LEMMA HooksStep ==
  ASSUME TypeOK, HooksInv, Next
  PROVE  HooksInv'
<1>1. binary \in {"server", "migrate", "worker", "auth"} /\ at \in Nat \ {0} /\ binary' = binary
  <2>1. binary' = binary
    BY OtherSteps DEF OnStart, OnStop, StartupFails
  <2> QED BY <2>1, Whereabouts
<1>2. CASE binary = "server"
  <2>1. (At("onStart") <=> at = 5) /\ (At("onStop") <=> at = 17)
    BY <1>1, <1>2, ServerPlaces
  <2>2. StartupFails => at' \in Nat /\ at' > 17
    BY <1>2, Jump
  <2>3. HooksSound' /\ Counted(5, 17)'
    BY <1>2, <2>1, <2>2, CountedStep DEF HooksInv
  <2> QED BY <1>1, <1>2, <2>3 DEF HooksInv
<1>3. CASE binary = "worker"
  <2>1. (At("onStart") <=> at = 4) /\ (At("onStop") <=> at = 6)
    BY <1>1, <1>3, WorkerPlaces
  <2>2. StartupFails => at' \in Nat /\ at' > 6
    BY <1>3, Jump
  <2>3. HooksSound' /\ Counted(4, 6)'
    BY <1>3, <2>1, <2>2, CountedStep DEF HooksInv
  <2> QED BY <1>1, <1>3, <2>3 DEF HooksInv
<1>4. CASE binary \in {"migrate", "auth"}
  <2>1. ~ At("onStart") /\ ~ At("onStop")
    <3>1. CASE binary = "migrate"
      BY <1>1, <3>1, MigratePlaces
    <3>2. CASE binary = "auth"
      BY <1>1, <3>2, AuthPlaces
    <3> QED BY <1>4, <3>1, <3>2
  <2>2. hooks' = hooks
    BY <2>1, OtherSteps DEF OnStart, OnStop, StartupFails
  <2> QED BY <1>1, <1>4, <2>2 DEF HooksInv, HooksSound, Hook
<1> QED BY <1>1, <1>2, <1>3, <1>4

-----------------------------------------------------------------------------
(* The invariant, and what follows from it.                                *)

Inv == TypeOK /\ Mains /\ HooksInv

(* The invariant holds at first. *)
LEMMA InvInit == Init => Inv
<1> SUFFICES ASSUME Init PROVE Inv
  OBVIOUS
<1>1. Mains
  BY DEF Init, Mains, ServerInv, AuthInv, IdleInv, Running
<1>2. HooksInv
  <2>1. at = 1 /\ Len(hooks) = 0 /\ 1..Len(hooks) = {}
    BY DEF Init
  <2> QED BY <2>1, ModulesAssumption DEF HooksInv, HooksSound, Counted
<1> QED BY <1>1, <1>2, TypeInit DEF Inv

(* Every step keeps the invariant. *)
LEMMA InvStep == Inv /\ [Next]_vars => Inv'
<1> SUFFICES ASSUME Inv, [Next]_vars PROVE Inv'
  OBVIOUS
<1>1. CASE Next
  <2>1. binary' = binary
    BY <1>1, OtherSteps DEF OnStart, OnStop, StartupFails
  <2>2. Mains'
    BY <1>1, <2>1, ServerStep, AuthStep, IdleStep DEF Inv, Mains
  <2> QED BY <1>1, <2>2, TypeStep, HooksStep DEF Inv
<1>2. CASE UNCHANGED vars
  <2>1. TypeOK'
    BY <1>2, TypeStep DEF Inv
  <2>2. Mains'
    BY <1>2 DEF Inv, Mains, ServerInv, AuthInv, IdleInv, Running, vars
  <2>3. HooksInv'
    BY <1>2 DEF Inv, HooksInv, HooksSound, Hook, Counted, vars
  <2> QED BY <2>1, <2>2, <2>3 DEF Inv
<1> QED BY <1>1, <1>2

(* The invariant holds for ever. *)
LEMMA Invariant == Spec => []Inv
BY InvInit, InvStep, PTL DEF Spec

(* Every variable of the three mains keeps its type. *)
THEOREM TypeCorrect == Spec => []TypeOK
<1>1. Inv => TypeOK
  BY DEF Inv
<1> QED BY <1>1, Invariant, PTL

(* All modules have started, and none has stopped. *)
LEMMA AllStarted ==
  ASSUME TypeOK, HooksSound, Len(hooks) = NumModules
  PROVE  hooks = Starts
<1>1. /\ Starts \in Seq({"OnStart", "OnStop"} \X (1..NumModules)) /\ Len(Starts) = NumModules
      /\ \A i \in 1..NumModules : Starts[i] = <<"OnStart", i>>
  BY ModulesAssumption DEF Starts
<1>2. hooks \in Seq({"OnStart", "OnStop"} \X (1..NumModules))
  BY DEF TypeOK
<1>3. \A i \in 1..NumModules : hooks[i] = <<"OnStart", i>>
  BY ModulesAssumption DEF HooksSound, Hook
<1> QED BY <1>1, <1>2, <1>3, SeqEqual, ModulesAssumption

(* An RPC runs only over an open database and started modules, in cmd/server and
   cmd/auth, through every order of signals, failures and drains. *)
THEOREM ResourcesOutlastWork == Spec => []WorkHasResources
<1>1. Inv => WorkHasResources
  <2> SUFFICES ASSUME Inv, NEW r \in Request, Running(r)
               PROVE  /\ db = "open"
                      /\ hooks = IF binary = "auth" THEN <<>> ELSE Starts
    BY DEF WorkHasResources
  <2>1. binary \in {"server", "migrate", "worker", "auth"} /\ at \in Nat \ {0}
    BY Whereabouts DEF Inv
  <2>2. CASE binary = "server"
    <3>1. at \in 9..16 /\ db = "open"
      BY <2>1, <2>2 DEF Inv, Mains, ServerInv
    <3>2. Len(hooks) = NumModules /\ HooksSound /\ TypeOK
      BY <2>2, <3>1 DEF Inv, HooksInv, Counted
    <3> QED BY <2>2, <3>1, <3>2, AllStarted
  <2>3. CASE binary = "auth"
    <3>1. at \in 8..12 /\ db = "open"
      BY <2>1, <2>3 DEF Inv, Mains, AuthInv
    <3>2. hooks = <<>>
      BY <2>3, EmptySeq DEF Inv, HooksInv, TypeOK
    <3> QED BY <2>3, <3>1, <3>2
  <2>4. binary \notin {"worker", "migrate"}
    BY DEF Inv, Mains, IdleInv, Running
  <2> QED BY <2>1, <2>2, <2>3, <2>4
<1> QED BY <1>1, Invariant, PTL

(* What the HTTP server accepted finds its gRPC server, unless Serve failed or the
   drain gave up at its deadline. *)
THEOREM AcceptedFindServers == Spec => []AcceptedIsServed
<1>1. Inv => AcceptedIsServed
  <2> SUFFICES ASSUME Inv, NEW r \in Request, req[r] = "refused"
               PROVE  incidents \intersect {"grpc", "deadline"} # {}
    BY DEF AcceptedIsServed
  <2>1. binary \in {"server", "migrate", "worker", "auth"}
    BY Whereabouts DEF Inv
  <2>2. "grpc" \in incidents \/ "deadline" \in incidents
    BY <2>1 DEF Inv, Mains, ServerInv, AuthInv, IdleInv
  <2> QED BY <2>2
<1> QED BY <1>1, Invariant, PTL

(* No task of the queue runs beside the end of the servers, unless the worker
   started after the queue was shut down. *)
THEOREM QueueIsQuiet == Spec => []QuietAfterQueueStop
<1>1. Inv => QuietAfterQueueStop
  <2> SUFFICES ASSUME Inv, binary = "server", at > Position("waitQueue"), tasks > 0
               PROVE  "lateQueue" \in incidents
    BY DEF QuietAfterQueueStop
  <2>1. at \in Nat /\ at > 11
    BY Positions, Whereabouts DEF Inv
  <2> QED BY <2>1 DEF Inv, Mains, ServerInv
<1> QED BY <1>1, Invariant, PTL

(* A hook, by the order the calls should come in. *)
LEMMA WholeOrder ==
  /\ Starts \o Stops \in Seq({"OnStart", "OnStop"} \X (1..NumModules))
  /\ Len(Starts \o Stops) = 2 * NumModules
  /\ \A i \in 1..(2 * NumModules) : (Starts \o Stops)[i] = Hook(i)
<1> DEFINE H == {"OnStart", "OnStop"} \X (1..NumModules)
<1>1. Starts \in Seq(H) /\ Len(Starts) = NumModules
      /\ \A i \in 1..NumModules : Starts[i] = <<"OnStart", i>>
  BY ModulesAssumption DEF Starts
<1>2. Stops \in Seq(H) /\ Len(Stops) = NumModules
      /\ \A i \in 1..NumModules : Stops[i] = <<"OnStop", NumModules + 1 - i>>
  BY ModulesAssumption DEF Stops
<1> HIDE DEF H
<1>3. /\ Starts \o Stops \in Seq(H)
      /\ Len(Starts \o Stops) = Len(Starts) + Len(Stops)
      /\ \A i \in 1..(Len(Starts) + Len(Stops)) :
            (Starts \o Stops)[i] = IF i <= Len(Starts) THEN Starts[i] ELSE Stops[i - Len(Starts)]
  BY <1>1, <1>2, ConcatProperties
<1>4. ASSUME NEW i \in 1..(2 * NumModules) PROVE (Starts \o Stops)[i] = Hook(i)
  <2>1. CASE i <= NumModules
    BY <1>1, <1>2, <1>3, <2>1, ModulesAssumption DEF Hook
  <2>2. CASE ~ (i <= NumModules)
    <3>1. i - NumModules \in 1..NumModules
      BY <2>2, ModulesAssumption
    <3>2. (Starts \o Stops)[i] = Stops[i - NumModules]
      BY <1>1, <1>2, <1>3, <2>2, ModulesAssumption
    <3>3. Stops[i - NumModules] = <<"OnStop", 2 * NumModules + 1 - i>>
      BY <1>2, <3>1, ModulesAssumption
    <3> QED BY <2>2, <3>2, <3>3 DEF Hook
  <2> QED BY <2>1, <2>2
<1> QED BY <1>1, <1>2, <1>3, <1>4, ModulesAssumption DEF H

(* OnStart is called in the order of registration, OnStop in reverse and each once,
   and a main that got through its startup has stopped every module when it exits. *)
THEOREM HooksInPairs == Spec => []HooksArePaired
<1>1. Inv => HooksArePaired
  <2> SUFFICES ASSUME Inv PROVE HooksArePaired
    OBVIOUS
  <2>1. /\ hooks \in Seq({"OnStart", "OnStop"} \X (1..NumModules))
        /\ Len(hooks) \in Nat /\ Len(hooks) <= 2 * NumModules
        /\ \A i \in 1..Len(hooks) : hooks[i] = (Starts \o Stops)[i]
    <3>1. hooks \in Seq({"OnStart", "OnStop"} \X (1..NumModules)) /\ HooksSound
      BY DEF Inv, TypeOK, HooksInv
    <3>2. Len(hooks) \in Nat /\ Len(hooks) <= 2 * NumModules
      BY <3>1, LenProperties DEF HooksSound
    <3>3. ASSUME NEW i \in 1..Len(hooks) PROVE hooks[i] = (Starts \o Stops)[i]
      <4>1. i \in 1..(2 * NumModules) /\ hooks[i] = Hook(i)
        BY <3>1, <3>2, ModulesAssumption DEF HooksSound
      <4> QED BY <4>1, WholeOrder
    <3> QED BY <3>1, <3>2, <3>3
  <2>2. IsPrefix(hooks, Starts \o Stops)
    <3>1. /\ \A n \in 1..Len(hooks) : n <= Len(hooks) /\ n <= 2 * NumModules
          /\ 1..Len(hooks) \subseteq 1..(2 * NumModules)
      BY <2>1, ModulesAssumption
    <3>2. SubSeq(hooks, 1, Len(hooks)) = [i \in 1..Len(hooks) |-> hooks[i]]
      BY <2>1
    <3>3. SubSeq(Starts \o Stops, 1, Len(hooks)) = [i \in 1..Len(hooks) |-> (Starts \o Stops)[i]]
      BY <2>1, <3>1, WholeOrder
    <3>4. [i \in 1..Len(hooks) |-> hooks[i]] = [i \in 1..Len(hooks) |-> (Starts \o Stops)[i]]
      BY <2>1
    <3> QED BY <2>1, <3>2, <3>3, <3>4, WholeOrder DEF IsPrefix
  <2>3. ASSUME Exited, incidents \intersect {"startup"} = {}, hooks # <<>>
        PROVE  hooks = Starts \o Stops
    <3>1. Len(hooks) # 0
      BY <2>1, <2>3, EmptySeq
    <3>2. Len(hooks) = 2 * NumModules
      <4>1. binary \in {"server", "migrate", "worker", "auth"} /\ at \in Nat \ {0}
        BY Whereabouts DEF Inv
      <4>2. binary \notin {"migrate", "auth"} /\ "startup" \notin incidents
        BY <2>3, <3>1 DEF Inv, HooksInv
      <4>3. CASE binary = "server"
        <5>1. at > 19
          BY <2>3, <4>1, <4>3, ServerPlaces
        <5> QED BY <4>1, <4>2, <4>3, <5>1 DEF Inv, HooksInv, Counted
      <4>4. CASE binary = "worker"
        <5>1. at > 7
          BY <2>3, <4>1, <4>4, WorkerPlaces
        <5> QED BY <4>1, <4>2, <4>4, <5>1 DEF Inv, HooksInv, Counted
      <4> QED BY <4>1, <4>2, <4>3, <4>4
    <3> QED BY <2>1, <3>2, WholeOrder, SeqEqual
  <2> QED BY <2>2, <2>3 DEF HooksArePaired
<1> QED BY <1>1, Invariant, PTL
=============================================================================
