\* One call to Ollama over a transport that fails in every way.
SPECIFICATION Spec
CONSTANTS
    Provider = "ollama"
    MaxAttempts = 3
    MaxCalls = 1
INVARIANT OnlyLLMError
