CONSTANTS
  groq = groq  openrouter = openrouter
  Calls = {c1, c2}
  Prompts = {m1}
  Providers = {groq, openrouter}
  HttpProviders = {openrouter}
  Chains <- TwoChains
  Threshold = 2
  ResetTimeout = 3
  CallTimeout <- MCCallTimeout
  Lag = 1
SPECIFICATION Spec
INVARIANT OneProbe
