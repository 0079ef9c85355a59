\* The analysis, in process or by an agent, and the fan-out of its report;
\* one channel may hang.
CONSTANTS
  wecom = wecom  mail = mail  unipro = unipro
  Channels = {wecom, mail, unipro}
  SettingOf <- MCSettingOf
  Files <- MCFiles
  Envs <- MCEnvs
  Answers <- MCAnswers
  Stuck = {mail}
  Retries = 3
SPECIFICATION FairProcSpec
INVARIANTS ProcTypeOK SuccessIsOfOneAttempt EveryChannelTried AskedWithinLimit AnswerIsUnderstood
PROPERTIES HandleEnds OthersNotBlocked
CHECK_DEADLOCK FALSE
