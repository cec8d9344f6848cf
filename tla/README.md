# TLA+ project of guardpoint-server

guardpoint-server (Go, PostgreSQL, chi, websockets) tracks security guards
(*vigias*) at work. A guard starts a shift (*turno*) from a registered phone,
checks in every few minutes, and ends it. A guard under duress types a special
password; a phone that is tampered with reports sabotage; a guard who falls
silent is noticed by a background worker. Supervisors watch panels fed by a
websocket. This directory holds TLA+ modules translated from that code, TLC
configurations that check them on small instances, and proofs for TLAPS.

## 1. Inventory

Paths are relative to the repository (`src/` in `PROJECT.json`).

| component | code | state it keeps | operations |
|---|---|---|---|
| shifts and sessions | `internal/service/turno_service.go`, `repository/turno_repository.go`, `repository/checkin_repository.go` | table `turnos` (status, `token_sessao`, `device_id`, PIN and its deadline, `fim_real`), table `checkins` | Iniciar, Checkin, Finalizar, Sabotagem, GetVigiaTurno, Revogar, Reassociar |
| alerts | `service/alerta_service.go`, `repository/alerta_repository.go` | table `alertas`, channel `alertChannel` (100) | CreateAlerta, CreateAlertaImediato, Reconhecer, Encerrar, batches, ResolverAlertasAtraso |
| timeout checker | `worker/timeout_checker.go` | none; one goroutine, ticker 30 s | CheckOnce: processTurno, checkNoShow, criarTurnoAtrasado |
| alert dispatcher | `worker/alert_dispatcher.go` | none; drains the channel | dispatch |
| offline batches | `service/turno_lote.go`, `worker/sync_reconciler.go` | none; `checkins.cliente_checkin_id` is unique | ProcessarLote, Reconcile |
| websocket hub | `ws/hub.go`, `ws/client.go`, `ws/handler.go` | map of clients per company under a RWMutex, one channel per client (64) | Register, Unregister, Broadcast, ReadPump, WritePump |
| not-done worker | `worker/nao_realizado_checker.go` | none; one goroutine, ticker 5 min | CheckOnce: looks back over 7 days, criarTurnoNaoRealizado |
| schedules, substitutions | `service/escala_service.go`, `service/substituicao_service.go` | `escalas`, `substituicoes` | CRUD, ReplaceLote, tolerance windows |
| escalation levels | `service/escalonamento_service.go`, `repository/config_escalonamento_repository.go` | `config_escalonamento`, `config_escalonamento_destinatarios` | Create, Update, UpdateUsuarios, Delete, List; the recipients of a level, of a post, of both |
| guards' passwords | `service/senha_vigia_service.go`, `repository/senha_vigia_repository.go` | `senhas_vigia` | Create, CreateBatch, Update, Delete, lookup of a code |
| authentication | `service/auth_service.go`, `auth/jwt.go`, `middleware/auth.go` | `sessoes_dispositivo`; tokens are JWTs, the server keeps none | Register, Login, BiometricLogin, Refresh, Logout, RegisterBiometric |
| users, posts | `service/usuario_service.go`, `service/posto_service.go`, `handler/posto.go` | `usuarios`, `postos`, `posto_supervisores` | Create, Update, Deactivate, AddSupervisor, RemoveSupervisor |
| companies, dashboard | `service/empresa_service.go`, `service/dashboard_service.go` | `empresas` | one UPDATE, ProvisionarPadrao (by the seed), read-only aggregates |
| routing, validation, config, pool, migrations, metrics | `internal/{handler,middleware,config,db,...}`, `cmd/` | none but the pool of 20 connections | stateless, or start-up |

How they meet:

- Requests and workers share only the **database**. No handler opens a
  transaction across its steps, and each `UPDATE` names its row by id alone:
  guards are evaluated on what an earlier `SELECT` returned. There is no unique
  index on "the active shift of a guard".
- Requests call the **hub** after they wrote (`Broadcast`); the hub never calls
  back.
- Alerts go from `criarAlerta`, which runs in requests and in the timeout checker,
  first into their table and then through a **bounded channel** to the dispatcher;
  the send has a `default` branch.
- The **timeout checker** and the **reconciler** read check-ins that requests
  insert, and write alerts that panels acknowledge and close.
- The **absence workers** read the schedules, which supervisors edit, and the
  shifts, which guards start; they write rows into the table of shifts.
- A **password** is tied to a level, and a level to the users an alert goes to;
  three services read and write these tables, and the raising of an alert reads
  all of them.
- All statements share a **pool** of 20 connections. A request has 30 seconds; the
  workers have no deadline.
- A **restart** empties the channel and forgets the requests, and with them the
  alerts that are stored and not sent; tables remain.

What is hard, and therefore modelled: interleavings of handlers between their
statements, of workers with handlers and panels, of goroutines on the hub's
lock; failed statements that handlers swallow; restarts; batches that are sent
again; device clocks that are late or ahead; the limits of queues, channels and
the pool; rows written back whole; tokens that nobody stores.

What makes each component correct:

- *shifts*: the columns of a session agree; an end time exists exactly while the
  shift is finished; recorded absences never change; a guard has few active
  shifts; a signal of duress or sabotage gets its alert; an active shift is
  watched; panels are told the status; a finished shift stays finished, a
  revoked one is left alone, a PIN is used once, but for the requests that were
  past their guards already.
- *alerts and their workers*: one open alert of delay; `resolvido_em` agrees with
  the status; no duress signal is swallowed; a silent guard is noticed; the
  dispatcher keeps up, and tells each alert once or loses it once; a check-in
  closes the delay; resending changes nothing.
- *hub*: no panic, no blocked broadcaster, no leaked goroutine, no panel
  that stays connected although it missed an event.
- *schedules and absences*: one record per missed schedule, none for a guard who
  came, an alert for each recorded delay; no miss is forgotten, also around
  midnight; a shift starts near the beginning of its schedule.
- *passwords*: kinds and levels agree, also where no constraint says so; the
  checks of the service foresee those that do; mandatory passwords stay; a signal
  finds its level.
- *recipients*: who stays entitled is told, nobody else is; a level always has
  somebody; looking them up ends.
- *users, posts, tokens*: an update changes what it was asked to; who is
  deactivated or loses a role runs out of tokens.

`PROJECT.json` lists every hazard at the line where it bites, with the
properties that would notice it, or the reason why none does.

## 2. Modules

| module | models | composed with |
|---|---|---|
| `Turno` | the seven shift handlers, registered devices, the rows workers insert | abstracts alerts to "which kinds exist" |
| `Plantao` | the abstract specification: what a shift's row promises its readers | implemented by `Turno` (`Vida`, `ImplementaPlantao`) |
| `Alerta` | one shift's check-ins and alerts: checker, requests, batches and reconciler, panels, channel and dispatcher, restarts | abstracts the shift to "active or not" |
| `Ocorrencias` | the abstract specification: what the alerts of a shift promise their readers and the people told | implemented by `Alerta` (`Vida`, `ImplementaOcorrencias`) |
| `Hub` | hub, lock, both pumps, connections | abstracts events to their number |
| `Ausencia` | schedules and substitutions, the choice of one at the start of a shift, checkNoShow, the not-done worker | abstracts a shift's life to started, finished or missed |
| `Senhas` | guards' passwords, the levels beside them, a guard who types one | gives `Turno` the kinds of password; levels come and go as in `Destinos` |
| `Destinos` | levels and their recipients, roles, links to a post, the resolution of recipients, the pool | what `Alerta` takes as "somebody is told" |
| `Conta` | rows of users and posts, logins, tokens, registered devices | `Turno`'s `dono` is its `dispositivos` |
| `MC...` | one instance for TLC of each of the above: symmetry, sets a `.cfg` cannot write | extend the module |
| `Turno_proofs`, `TurnoRegistro_proofs`, `Alerta_proofs`, `Hub_proofs`, `Ausencia_proofs`, `Senhas_proofs`, `Destinos_proofs`, `Conta_proofs` | theorems and proofs | extend the module and TLAPS; `TurnoRegistro_proofs` extends `Turno_proofs` |

No module declares a RECURSIVE operator, so all of them can be proved about.

### Turno

`turno` is the table (an id whose status is `vago` has no row yet), `dono` the
table of registered devices, `checkins` and `alertas` the *sets* of kinds stored
per shift, `painel` the last `status_change` event broadcast. A request is a
record in `proc`; its `pc` names the next statement. The first action of a
request (`...Ler`) reads and evaluates the guards; every later action is one SQL
statement or broadcast: `IniciarCriar` the INSERT of the shift,
`IniciarEmitir` the broadcast with the password's consequence, and so on. A
guard that fails answers an error and changes nothing, so it is no action.
Errors are of two sorts. A handler that returns on an error takes `Abortar`,
which also stands for a cancelled context and a stopped server; a handler that
discards an error goes on (`SabotagemStatus`, `SabotagemEmitir`,
`CriarAlertas`). `MaxFalhas` bounds both.

Abstractions: a token is "set or NULL" because nothing compares it with another
value; geofence and password typed are inputs; posts, schedules and tolerance
only reject further starts. Dropping those guards admits more behaviours than
the code has, so what holds here holds there. A statement that fails writes
nothing (a commit whose answer is lost is not modelled).

Two requests that overlap may each pass a guard that the other one then makes
false. The properties about such guards do not assume that requests come one at a
time: `Sobre` names the requests that are past their guards on a shift, and each
property says that nobody joins them once the guard is false, and what holds when
the last of them is answered (`FinalizadoEFinal`, `RevogadoNaoAge`,
`PinDeUsoUnico`); `PainelAcompanha`, that only two requests between their UPDATE
and their event can leave the panel with another status; `AtivosLimitados`, that
each active shift, and each insert still to come, costs a request in execution;
`AtivoTemCheckin`, that each shift left without a check-in costs a failure.

`Plantao` is what the readers of these tables may rely on, with no requests in
it: per shift a phase (`vago`, `em_curso`, `encerrado`, `ausente`), the guard, the
device or "revogada", and what was noted of it. Its actions touch one shift, and
either the row or the notes, atomically and with their guards true at that very
moment. `Turno` maps to it with `Fase`, `Sessao` and the tables of notes; the
point is that the guards of its handlers were true statements *earlier*, and
that every statement that lands late must still be an action of `Plantao`.

### Alerta

`checkins` and `alertas` are sequences in the order of insertion, for one shift.
`checker` is the program counter of the timeout checker; `canal` the channel,
which the alerts of all shifts share (`Alheio` stands for the others);
`avisados` and `perdidos` record what the dispatcher took and what was dropped.
`criarAlerta` is the INSERT; the send is a step of its own (`Enviar`), and until
then `porEnviar` holds the alert, for each request and for the checker. So two
creators may insert in one order and send in the other, and `Reiniciar` loses what
is in the channel and what is on its way to it. The websocket event between the
two changes no table and is left to `Hub`.
The clock counts minutes. `Defasagens` is how far a check-in's timestamp lies
before its arrival: 2 for one made offline, -1 for a phone whose clock is ahead.
`MudarStatus` (finish or reopen) and `OutroCheckin` (the check-ins of
Finalizar and Sabotagem) stand for Turno. `CasaAtraso` is the pattern
`tipo LIKE 'atraso_%'`, in which `_` is one character: it matches the rows an
earlier release wrote (`atraso_n1`) and not `atraso`.

`Ocorrencias` is what all of this promises about alerts, without clock, check-ins,
requests or workers. An alert is raised open (`Levantar`), treated (`Tratar`) and
never open again; a delay is raised only while no delay is open. The alert is for
nobody, or on its way to a bounded queue, which alerts reach in any order
(`Enfileirar`) and share with those of other shifts (`Ocupar`); one that finds the
queue full is lost. The oldest of the queue is told (`Avisar`); a stop loses the
queue and those on their way (`Parar`). So an alert is told once, in the order of
the sends, which is not always that of the table, or it is lost once. In `Alerta`
the count that guards a delay and the INSERT are different steps; `Vida` maps
`porEnviar` to the set of alerts on their way, and `Situacao` the three ways to
close an alert to one.

### Hub

`Register` and `Unregister` hold the write lock for their whole body, so each is
one step, guarded by "no reader inside"; `esperam` holds the writers that wait,
and a broadcaster may not enter while somebody waits, as in `sync.RWMutex`.
A broadcaster serves one client per step (`BroadcastEnviar`), so pumps and
connections interleave with it. A full queue starts `go h.Unregister`
(`despejos` counts those goroutines). `panico` records a send on, or a second
close of, a closed channel.

### Ausencia

`Compromissos` is the set of rows that `escalas` (`sub` false, weekdays) and
`substituicoes` (`sub` true, a range of dates) can hold, `ativos` those that are
active; rows are values, so two equal ones count as one. `turnos` is the table
of shifts in the order of insertion, `alertas` the no_show alerts. `agora` counts
hours of the server's zone, `Horas` to a day; `Fuso` is how far ahead the zone of
the database session is, which matters where SQL casts a timestamp to a date
(`Data`), while Go computes days in its own zone (`Dia`). A later start of the
same day, the end on the following day and the circular distance of
`VerificarToleranciaEscala` are all arithmetic on this clock.

An hour of a schedule goes to `Horas` inclusive, since the service and a column
TIME both admit 24:00. `horaEmMinutos` takes it for midnight (`Minutos`), but
`parseHoraData` cannot read it (`Legivel`): the no-show check raises the alert and
inserts no row, the planned end of a started shift falls back to half a day later
(`FimPrevisto`), and in the not-done worker's query no hour of the day is late
enough for such a schedule. An absence without a row does not hide the schedule
from the next cycle, so every alert that a panel closes is raised again; `MaxFechos`
bounds how many are closed.

Each SQL statement of a worker is a step. `checker` and `nr` hold where a cycle
is, the instant it began (both workers read the clock once) and the rows still to
do; so guards, panels and editors act on the tables between a worker's query and
its INSERT. The disjunct with `Falha` of each step is the statement that fails,
with what the code does then: skip the row, go on with the next day, or end the
cycle. `Reiniciar` forgets both cycles.

`ParaInicio` is `buscarEscalaParaInicio`: a substitution of today, else a
schedule of today, else yesterday's that crosses midnight. The three queries end
in LIMIT 1 without an order, so any row that fits may be the one returned.

Abstractions: `em_andamento` stands for every active status; the check-ins and
PINs of a shift are in `Turno`; the look for an open alert and its INSERT are one
step because only this goroutine creates alerts of that type; `Tique` assumes
that a cycle takes less than an hour.

### Senhas

`senhas` is the table by id, `niveis` the levels. `CriarValidar`, `CriarListar`,
`CriarEmpresa`, `CriarInserir` are the SELECTs of Create and CreateBatch and their
INSERT; Create for one password does what CreateBatch does for several. An update
takes up to five statements (`AtualizarLer` ... `AtualizarGravar`) and writes the
row as it read it, with the fields that were sent. `Restricoes` are the CHECKs,
the foreign key and the unique indexes that are left after the last migration;
`Grava` evaluates them at the last statement, where a violation is answered 500.
`so` (nobody else wrote since the request arrived) and `curto` are history, for
`ErroInternoTemCausa`. `SinalLer` and `SinalResolver` are the two lookups when a
guard types a code. The level of the system cannot be deleted; others can, if no
password refers to them.

### Destinos

`destinatarios` is the list of each level, `papel` the roles, `vinculos` the
supervisors of the one post that is followed. The database runs READ COMMITTED:
`Limpar` is the DELETE of `Update` and `UpdateUsuarios`, which remembers the rows it
saw and waits for a transaction that deleted one of them (`Segura`); `Inserir` is
the INSERTs and the COMMIT, which fail if a row that came later is in the way.
`Update` locks the level's row first, `UpdateUsuarios` does not. `Conectar` takes
the connection of a transaction, or of a DELETE, before its first statement, which
may have to wait for a lock. A resolution
(`LerNivel` or `AbrirCursor`, `LerLista`, `LerAdmins`, `LerSupervisores`) takes three
or more SELECTs. `EmUso` are the connections that an open cursor or a
transaction keeps, one that waits at its first statement included; `HaConexao` guards every statement. `admin`, `ligado` and `apto` of a
resolution are history: who stayed entitled all the while, who was at some time.
`LerLista` may fail without anybody noticing, as in the code.

### Conta

`linhas` holds users and posts. Atualizar and Desativar read a row, `Gravar`
writes all its columns by id; `Aceita` are the constraints of the table. `acesso`
and `renovacao` count down what is left of the longest access token per user and
role, and of the longest refresh token, since no token is stored: the lesser
ones add nothing. `Refresh` asks a token for its subject only, so an access token
serves too. `Emitir` issues from the row as it was read statements earlier.

## 3. Runs

Bounds are the CONSTANTS in each `.cfg`.

| run | question | instance |
|---|---|---|
| `turno_concorrente` | what survives every interleaving of three requests on one shift, with the duress password and a failure; `Plantao` is implemented | 1 guard, 1 device, 1 shift, 3 requests, clock to 2, 1 failure |
| `turno_dupla` | how much a race costs: active shifts, devices with one PIN, the panel | 1 guard, 2 devices, 2 shifts, 2 requests, no clock, no failure |
| `hub` | panics, deadlock, leaks, missed events | 2 connections, 2 broadcasters, queue of 1, 2 broadcasts |
| `alerta` | duress signals, `resolvido_em`, types | 2 requests besides the checker, alerts of other shifts, channel of 1, thresholds 0 and 1 |
| `alerta_vivo` | dedup, liveness and the implementation of `Ocorrencias` with a failure or restart | 1 request, 1 failure |
| `alerta_checkin` | *violation*: a check-in does not close the delay | 1 request |
| `ausencia` | one record per absence, none for a guard who came, an alert before each | 2 schedules (one from Saturday 24:00) and a substitution of one guard, days of 5 hours, 2 days, looking back 1 day; 1 shift, 1 edit, 1 failure or restart |
| `ausencia_viva` | every miss is recorded in the end | 1 substitution of 2 days, 3 days, looking back 2; 1 shift, 1 edit, 1 failure or restart |
| `ausencia_noturna` | *violation*: a night's absence is never recorded | a day and a night schedule, days of 6 hours, looking back 2 days |
| `senhas` | coherent levels, causes of internal errors, mandatory passwords, signals | 2 guards, 2 levels, 3 codes (one short), 2 passwords, 2 requests |
| `destinos` | nobody forgotten, nobody added, a level never without recipients, no deadlock on the pool | 2 users, 2 levels, 2 requests of different kinds, 1 resolution without a deadline, 2 connections |
| `conta` | what an update may change, tokens that outlive their cause | 2 users, a post, 2 names, an email, 1 device, 2 requests, access tokens of 1, refresh tokens of 2 |

Why the bounds are enough to be interesting. Two overlapping requests already
give each read-then-write race; three let a third party come between (a
revocation between an expiry and a late sabotage, two requests past the guard that
a third one makes false). Two shifts let a guard have an old and a new one, or two
that are active, and with two requests one more insert would break
`AtivosLimitados`; two devices compete for one PIN. The
clock of `turno_concorrente` reaches the tick after the planned end and after a
PIN's deadline; none of the properties of `turno_dupla` depends on time. A
queue, or channel, of one is full after one event, and two events overflow it.
The checker and one request are two creators of alerts, who can send in the other
order. Interval 1 and threshold 1 make a shift late at minute 2, the last one; the
threshold 0 is the one the code ignores. In `ausencia` the clock begins on a
Sunday, so that date -1 is the Saturday before: a schedule of each of the two
days and a substitution over both give the not-done worker something to find in
each query, and the checker something to find in its own. The schedule of Saturday
begins at 24:00, so the checker meets an hour it cannot read. One
with its *end* at 24:00 is in no run; the theorems of `Ausencia` cover both.
Looking back one day, not seven, is enough for a mutant that looks back one day
more to be seen; `ausencia_viva` looks back two, so that a cycle lost on one day
is made up for on the next. Days of five hours hold a beginning, its tolerance,
the end and the hours after it, with room for a zone that is one hour ahead.

In `senhas` each request carries one of every kind and level, valid or not, and
with two ids the table is full, so codes, kinds and levels collide; ids are used
again. In `destinos` two connections are the least a resolution can do with, and
`PoolBasta` the assumption that those without a deadline (the timeout checker, one
goroutine) cannot take all: with 20 connections and one such goroutine the code
meets it. In `conta` a refresh token outlives an access token, which is all the
real 7 days and 15 minutes matter for.

In the runs of `Turno`, `Hub`, `Alerta` and `Senhas` the system may stop
(`CHECK_DEADLOCK FALSE`): bounds run out. In the others it may not, and deadlock is
checked.

Each property of a passing run has a mutant in `PROJECT.json`, a plausible bug
in one definition (the operators marked `(mutant)`), under which the run fails.

### Disagreements

Two statements of the repository are violated by the code with a run of their
own that finds the counterexample, and a finding that quotes the statement.

- **`alerta_checkin`** – the pattern `atraso_%` does not match `atraso`, so a
  check-in leaves the alert of delay open, and the dedup then hides the next one.
- **`ausencia_noturna`** – the not-done worker compares the end of a schedule,
  a day later if it crosses midnight, with the date the schedule began on at the
  present hour. For a night schedule no hour of the day is late enough.
  `checkNoShow` records such an absence itself, on the evening or before the end,
  if it happens to run then and no other row of the guard is open; the worker
  that should catch up never does. `FaltaRegistrada` holds for the schedules of
  one date.

Others were found while modelling and have no run of their own:

- `Iniciar` looks for an active shift (`turno_service.go:208`) and inserts later
  (`:274`), so two overlapping requests both succeed; the integration test "segundo
  turno simultaneo retorna 409" sends them one after the other. `AtivosLimitados`
  says how bad it gets: active shifts, and inserts still to come, are at most as
  many as the requests in execution.
- A batch that is sent again is not stored again, but its password is applied
  again (`turno_lote.go:99`), and a second emergency alert is raised. The other
  direction, no signal lost, holds (`SinalNaoSePerde`).
- The tolerance of a schedule is a distance on the clock face
  (`escala_service.go:256`) and yesterday's night schedule is among the candidates,
  so the night shift of Sunday can be started on Monday evening.
- `Reassociar` does not test the PIN in its UPDATE, so two requests that overlap
  use one PIN twice, and the last one keeps the session (`PinDeUsoUnico` says that
  only requests which read the PIN before can).
- Sabotagem and Finalizar write the status and broadcast it in two steps, so when
  they overlap the last event may not be the last status (`PainelAcompanha` says
  that nothing else leaves a panel wrong about a shift in progress).
- `validarHorasEscala` admits 24:00 (`escala_service.go:309`), which `parseHoraData`
  (`timeout_checker.go:289`) cannot read: neither worker records the absence, and an
  alert that is closed is raised again at the next cycle.
- An alert is stored before it is sent to the dispatcher (`alerta_service.go:107`,
  `:113`): a stop in between leaves one in the table that nobody is told of, and
  two can be told in the other order than they were stored.
- `GetVigiaTurno` finishes an expired shift without a `status_change`
  (`PainelAcompanha` holds: panels are right about active shifts).
- The validator of passwords accepts two or three digits, the CHECK of the table
  four at least, so such a request is answered 500 (`Curtos`).
- Two `UpdateUsuarios` that overlap leave the union of their lists
  (`config_escalonamento_repository.go:148`), and a list that names a user twice
  is answered 500.
- `listarDestinatarios` swallows its errors (`:178`): an alert with nobody to tell.
- `AddSupervisor` does not look at the role, so a guard that was linked, and was a
  supervisor when a level listed it, is told of alerts.
- `UsuarioService.Create` computes `ativo` from the request
  (`usuario_service.go:68`), and the INSERT leaves it out
  (`user_repository.go:111`): a new user is always active (`Inserir` of `Conta`).
- An update that read a user, or post, before it was deactivated makes it active
  again (`MudaSoOPedido` says that only requests that overlap do so).
- `Logout` revokes no token, and removes a device whoever has it.

And one hypothesis is the code's, not the model's:
`UmRegistroPorFalta` and `QuemVeioNaoFaltou` speak of schedules whose shifts
begin on one date in both zones (`MesmaData`). A shift that begins in the last
three hours of the day counts for the next date in the database, and is recorded
a second time.

## 4. Fairness

- `Turno` states none and has no liveness property: nothing obliges a guard to
  send a request.
- `Hub`: weak fairness of every goroutine that can run (broadcasters inside the
  lock, pumps, pending unregistrations) and of waiting writers; that is what the
  Go scheduler and `sync.RWMutex` give. No fairness of connections, failures of
  the network, or new broadcasts.
- `Alerta`: weak fairness of `CheckOnce` (a goroutine with a ticker that never
  stops), of `AlertDispatcher` (a goroutine that receives in a loop) and of
  `Enviar`, since a goroutine that stored an alert only waits for the hub's lock
  before its send, which does not wait. No fairness of requests. `AtrasoDetectado` is conditional on the delay lasting:
  a check-in or the end of the shift also ends it.

  The clock has none: a delay that is not reached is no delay.
- `Ausencia`: weak fairness of `checkNoShow` and of `NaoRealizado`, two goroutines
  with tickers, and of `Tique`, for a worker that never saw the next day would
  have nothing to record. None of guards, panels or editors. A failure may take
  the place of a step; `MaxFalhas` is what makes failures end.
- `Destinos`: strong fairness of a resolution's steps: the pool serves those who
  wait in the order of arrival, so one that finds a connection free again and
  again gets it. Weak fairness of `Recusar` and `Desistir`, the deadline of 30
  seconds of every request (`app.go:112`), and of `Entregar`. The resolution of the
  timeout checker has no deadline (`SemPrazo`): it ends because the others do.
- `Conta`: weak fairness of time. `Senhas` states none.

## 5. Proofs

`tlapm` checks these for every value of the constants, in particular any number
of guards, requests, clients and failures. Every safety invariant and every
action property of the passing runs has a theorem.

Assumptions, all of them about constants, and evaluated by TLC in the runs:
`ConstantesOK` (types); `ConjuntosFinitos` of `Turno` and `ProcsFinitos` of
`Alerta` (finitely many requests run at once, which counting needs);
`CompromissosOK` of `Ausencia` (what the validation and the CHECKs of both
tables guarantee about a row); `PoolBasta` of `Destinos`; and `NuloOK` of `Senhas`
and `Conta` (NULL is no row). No theorem assumes that requests come one at a time.

**Turno_proofs.** `TypeCorrect`, `SessaoCorrect`, `FimRealCorrect`,
`AusenciaCorrect`, `PlantaoCorrect`, `AtivosCorrect`. `SessaoCoerente` is not
inductive alone: a step that lands late must still find a row of the right kind.
`Pendente` adds that the row a pending statement names was started and stays
so. For `AusenciaCorrect`, `Vive` classifies how a row may live (vacant,
started, absence) and each action keeps the class. `PlantaoCorrect` is the
refinement: `UmaLinha` sorts the steps by what they do to the one row they touch
(a shift is born, an absence noted, it ends, reopens, loses or gets a device),
`SoMarca` shows that the others only add notes to a started shift; each sort is
then an action of `Plantao`, under the mapping (`VidaDaMudanca`, `VidaNext`).
`AtivosCorrect` needs a
counting argument: `Orcamento` bounds the guard's shifts that are active, *or may be
reopened by a late sabotage*, plus the requests that have passed the check and not
inserted yet by the number of requests; an insertion moves one from the second
count to the first, and reopening costs the request that does it.

**TurnoRegistro_proofs.** `SinalCorrect`, `CheckinCorrect`, `FinalizadoCorrect`,
`RevogadoCorrect`, `PinCorrect`, `PainelCorrect`. The first rests on the invariant
`Registro`, which holds while nothing failed. `SinalTemAlerta` asks for *some*
request that will raise the alert, and that request could be one with another
password; `Sinalizado` asks for one with that very password, and `Antecipado` records
that Iniciar raises the alert before it stores the check-in. The others need what a
step is *seen from one shift*. `UmPasso` proves once that every step of the system is
a tick, a row of a worker, or one request that begins on a shift with its guards
true, creates one, goes on or is answered (`Andou`), with what each may write where;
`Novo` and `SoDele` conclude that a request joins `Sobre` only through its guards, and
that a step which changes a shift is by a request in `Sobre`. What the guards need
of the row is `SemSessao` (a row that is no shift on duty has no token) and, for the
expiry, `Vencido` (a request that will finish a shift saw it past its time, which the
clock does not undo). `PainelPasso` and `VigiaPasso` go through the same cases for the
panel and for the shifts without a check-in, which a failure adds at most one to.

**Alerta_proofs.** `TypeCorrect`, `ResolvidoCorrect`, `UmAtrasoCorrect`,
`SinalCorrect`, `OcorrenciasCorrect`. All steps fall into a few shapes
(`Historia`: the table stays, is updated in place by one of the five writers, or
grows by one open alert), which lemmas treat once. `UmAtrasoAberto` is
strengthened by `Dedup`: while the checker is between its count and its INSERT,
no alert of delay is open. That is what a batch update that could reopen a closed
alert would break, had it a target status `aberto`. No run lists it, because
`ImplementaOcorrencias` says more; the run of that one catches a dedup that counts
too little.
`SinalNaoSePerde` counts: `Saldo` says that the check-ins with the duress password
are at most the emergencies plus the requests that still owe one. Storing a
check-in opens a debt with the step that pays it; an entry of a batch that was
stored before opens a debt without a check-in; only failures cancel one.
`OcorrenciasCorrect` maps each step to one of `Ocorrencias`: the update in place to
`Tratar` of the alerts it changed, growth to `Levantar`, a send to `Enfileirar` or
`Ocupar`, the dispatcher to `Avisar`, a restart to `Parar`. Two facts of the invariant
carry it. `Dedup` gives the guard of a delay at the INSERT, steps after the count.
`Distintos` says that no two creators hold one alert, so a send takes one alert, and no
other, out of the set of those on their way.

**Hub_proofs.** `TypeCorrect`, `SemPanicoCorrect`, `FechadoCorrect`. The
invariant `Coerente` relates the phase of a connection's pumps, membership in
the map, and the closed flag; the broadcaster's remaining clients are in the map
because writers wait until it leaves.

**Ausencia_proofs.** `TypeCorrect`, `AtrasadoCorrect`, `RegistroCorrect`,
`QuemVeioCorrect`. `AtrasadoTemAlerta` counts
rows and alerts, and is not inductive: a row could use up the alert of another
one. `Cobertos` adds one on the side of the rows while the checker stands between
the alert and the row (`Devendo`); raising the alert pays for it, inserting the
row uses it, and a failure or a restart in between only gives it up.

The two properties about rows of the not-done worker share one invariant,
`Relogios /\ Tabela`. Each worker acts on rows its query found earlier, so
`Pendentes` says of every row still to be inserted that the table has none for it
yet, nor a shift that came to it, *although* guards and the other worker went on in
between. What makes that true is time, not locking: the not-done worker looks at
days that are over (`Datadas`), on which nobody can start a shift or be found
missing any more, because a cycle ends within the hour after the one it began in
(`Relogios`), and a start is dated the same in both zones (`MesmaData`). `NrLegivel`
says that the rows that worker found have hours it can read. `Unicas` adds to
the two properties that the checker itself records a day once. The lemmas
about days (`DivisaoUnica`, `DiaCresce`, `DiaDoInicio`, `DiaPassado`) do the
arithmetic of the clock once.

**Senhas_proofs.** `TypeCorrect`, `NiveisCorrect`, `ErroCorrect`, `SinalCorrect`,
`ObrigatoriasCorrect`. The invariant includes every constraint of the table
(`TabelaOK`);
`PedidoOK` says of each request what its earlier SELECTs established *and* nobody
can undo: the kind of a level (`Forma`), owner and kind of a password. What others
can undo, such as a level's existence or a free code, is only known while nobody
else wrote (`Fresco`). `NiveisCorrect` then follows from the foreign key for
existence and from `Forma` for the kind; `ErroCorrect` from `Fresco`.

**Destinos_proofs.** `TypeCorrect`, `EsquecidoCorrect`, `IndevidoCorrect`. `SinalOK`
follows a resolution query by query: who stayed entitled is either in what was
found or in what is still to be read, and who was found is in `apto`. That no
level is left without recipients is part of the types, and needs `PedidoOK` (the
list a request will insert is one the validator accepted).

**Conta_proofs.** `TypeCorrect`, `SessoesCorrect`, `MudaCorrect`. Of a request about
to write back a row, the invariant says that the row exists for good and, while
nobody else wrote it, is as it was read; `IdReservado`, that two requests never
insert the same row.

**Only model-checked.** Liveness (`BroadcastTermina`, `PerdeuDesconecta`,
`NadaVaza`, `AtrasoDetectado`, `Notifica`, `FaltaRegistrada`, `ResolucaoTermina`,
`TokenAcompanhaCadastro`): it rests on fairness and ENABLED, out of the
prover's reach. `AusenciaCongelada`, `UmAtrasoAberto` and `SessoesOK` are the
reverse: proved, and checked by no run (`ImplementaPlantao` contains most of the
first, `ImplementaOcorrencias` the second).

## 6. Not modelled

- Routing, middleware, validation, formatting, configuration, migrations, seed,
  metrics: stateless or pure I/O. Constraints that migrations declare are used, and
  so are the size of the pool and the deadline of requests.
- Companies and the dashboard: one UPDATE of a row nothing else writes, and
  aggregates with no relation to keep.
- Password hashes, device secrets and signatures: right or wrong, decided where
  the request arrives.
- Geofence arithmetic: an input, since the code trusts it and only raises an
  alert.
- Notification delivery: the code has a stub that logs.
- Generated planned shifts (`turno_agendamento.go`): below.

## 7. Plan

All components with state of their own are modelled. What is left:

1. `Ausencia`'s rows as steps of `Plantao`, which today meet only in `Turno`.
2. The generated list of planned shifts (`turno_agendamento.go`) as an operator
   over `Ausencia`'s schedules, checked against a definition day by day.
